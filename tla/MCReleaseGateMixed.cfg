SPECIFICATION Spec
CONSTANTS
  Requests <- MCRequests
  Assets <- MCAssets
  Artifacts <- MCArtifacts
  Engines <- MCEngines
  Latest <- MCLatest
  Limit <- MCLimit
  Installed = {"individuality"}
  Live0 <- MCLive0
  Npm0 <- MCNpm0
  MaxSpec <- MCMaxSpec
INVARIANT GreenTestsItsTransitions
