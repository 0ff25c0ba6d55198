--------------------------- MODULE MCThunkLoader ---------------------------
(* Instances of ThunkLoader for TLC: a function this Windows version        *)
(* exports from a module that is loaded for it, one that a module found by  *)
(* GetModuleHandleW does not export, and one of a module that is not there. *)
EXTENDS ThunkLoader

CONSTANTS t1, t2, fExported, fMissing, fNoModule, mLoad, mAbsent, mPinned

MCModuleOf == [f \in Funs |->
  CASE f = fExported -> mLoad
    [] f = fMissing -> mPinned
    [] OTHER -> mAbsent]

MCThreads2 == {t1, t2}

MCFuns == {fExported, fMissing, fNoModule}
TwoFuns == {fExported, fMissing}
MCModules == {mLoad, mAbsent, mPinned}
MCPresent == {mLoad, mPinned}
MCPinned == {mPinned}
MCExported == {fExported}
============================================================================
