SPECIFICATION InstallSpec
CONSTANTS
  p1 = p1
  p2 = p2
  n1 = n1
  n2 = n2
  c1 = c1
  Storage = storage
  Provider = provider
  None = None
  Own = n2
  Paths <- MCPaths
  Ports <- MCPorts
  Consoles <- MCConsoles
INVARIANTS InstallTypeOK InstalledWorks
PROPERTY InstallCompletes
