SPECIFICATION NodeSpec
CONSTANTS
  Argvs <- MCArgvs
  Hosts <- MCHosts
  Fds = {3}
  Kernels <- MCKernels
INVARIANTS
  PluginsCoexist
