CONSTANTS
  t1 = t1
  t2 = t2
  fExported = fExported
  fMissing = fMissing
  fNoModule = fNoModule
  mLoad = mLoad
  mAbsent = mAbsent
  mPinned = mPinned
  NoFun = NoFun
  Main = t1
  Threads <- MCThreads2
  Funs <- TwoFuns
  Modules <- MCModules
  ModuleOf <- MCModuleOf
  Present <- MCPresent
  Exported <- MCExported
  Pinned <- MCPinned
  TransientFailure = FALSE
  Preload = FALSE
SPECIFICATION Spec
INVARIANT InitBeforeLookup
