SPECIFICATION Spec
CONSTANTS
  c1 = c1
  c2 = c2
  n1 = n1
  Calls = {c1, c2}
  Nonces = {n1}
  Workloads <- MCWorkloads
  MaxTime = 1
  Files <- MCFiles
  NoCall = NoCall
  Manifests <- MCManifests
  Zone <- MCZone
  Foreign <- MCForeign
  MaxEdits = 1
  Packet <- MCPacket
  Drafts <- MCDrafts
  Commits = {"k1", "k2"}
  Unread = Unread
  MaxDraftEdits = 3
  Uploads = {"u1", "u2"}
  Previews <- MCPreviews
  NoUpload = NoUpload
  MaxClock = 2
  Skew = 1
  MaxLifetime = 2
  MemoryCommands <- MCMemoryCommands
  FirstArtifact = "a1"
  NoArtifact = "none"
  NoIdentity = "none"
  MaxCommands = 3
  RemoteCalls = {"e1", "e2", "e3"}
  Actions <- MCActions
  ClientGrants = {"ref1", "ref2"}
  ServerGrants = {"ref1"}
  DockerOutcomes <- MCOutcomes
  Controllers = {TRUE, FALSE}
  InputLimit = 2
  PrerollLimit = 2
  SpokenLimit = 2
  DeviceLimit = 1
  MicLimit = 2
  MaxFrames = 4
  Submits = {"s1", "s2"}
  Addressed <- MCAddressed
  Agents = {1, 2, 3}
  Online = {1, 2}
  Proposals = {"p1", "p2"}
  MaxAttempts = 2
  MaxSteps = 2
  NoProvenance = NoProvenance
  Packages <- MCPackages
  Identities = {"mine", "fork"}
  TargetBranch = "feat"
  Branches = {"feat", "main"}
  Absent = "absent"
  Rewritable = {"apply"}
  LeftBehind <- MCLeftBehind
  MaxApplyEdits = 1
CHECK_DEADLOCK FALSE
INVARIANTS
  RunnerInv
  DnsIsHonest
  SealedIsApproved
  UploadIsHonest
  MemoryIsWhole
  RemoteIsHonest
  HeardIsOneTurn
  VoiceQuiet
  AppliedAsVerified
  RepliesAccounted
  ReceiptsAreBound
PROPERTIES
  
  WriteIsGuarded
  RunsEnd
