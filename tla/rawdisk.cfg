SPECIFICATION Spec
CONSTANTS
  Var = Var
  d1 = d1
  Externals <- OneExternal
  CustomMnts = {m1}
  NoMnt = NoMnt
  Versions = {v1, v2}
  NoVer = NoVer
  VarUUID = VarUUID
  ImageUUID = ImageUUID
  OtherUUIDs = {u1, u2}
  NoUUID = NoUUID
  MaxFaults = 2
INVARIANTS
  RawDiskInv
  VarDiskSound
  
PROPERTIES
  GuestDataKept
  RecoversUnlessStuck
