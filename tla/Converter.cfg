SPECIFICATION Spec
CHECK_DEADLOCK FALSE
CONSTANTS
  Nil = Nil
  Directories <- MCDirectories
  DefaultDir = "default"
  RenderedName <- MCRenderedName
  WorkloadName <- MCWorkloadName
  SiteConfigs <- MCSiteConfigs
  Arguments <- MCArguments
  YamlFiles <- MCYamlFiles
  ConfigMapName = "extra-manifests-cm"
  Reruns <- RerunConfigs
  MaxRuns = 2
INVARIANT TypeOK
INVARIANT SnippetFilesExist
INVARIANT LastClusterComplete
INVARIANT SnippetExact
INVARIANT LossReported
