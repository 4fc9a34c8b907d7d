SPECIFICATION Spec
CHECK_DEADLOCK FALSE
CONSTANTS
  Nil = Nil
  Directories <- MCDirectories
  DefaultDir = "default"
  RenderedName <- MCRenderedName
  WorkloadName <- MCWorkloadName
  SiteConfigs <- RerunConfigs
  Arguments <- GoodArguments
  YamlFiles <- MCYamlFiles
  ConfigMapName = "extra-manifests-cm"
  Reruns <- RerunConfigs
  MaxRuns = 1
INVARIANT ConfigMapForEveryInstance
