SPECIFICATION FairSpec
CONSTANTS
  Req = {"p1", "p2", "apply"}
  Abs = {"docker", "ovn", "odd"}
  Dep = {"d1", "d2"}
  Image = {"i1", "i2"}
  Asks <- MCAsks
  Packages <- MCPackages
  Unknown = {"odd"}
  HasUnits = {"docker"}
  Images <- MCImages
  NeedsDocker = "docker"
  NamesManager = {"p1", "apply"}
  MayLeave = {"p2"}
  Teams = {{"p1", "p2"}, {"p2", "apply"}}
INVARIANTS
  TypeOK
  ReadyIsBacked
  OneFetch
PROPERTIES
  PrepareEnds
