CONSTANTS
  ALT_MAX_FD = 6
  alt_dev_null = alt_dev_null
  jtag_uart = jtag_uart
  files = files
  NULL = NULL
  Stdio = jtag_uart
  Device <- Devices
  FileSystem <- FileSystems
SPECIFICATION Spec
INVARIANTS StdioNeverLocked
PROPERTIES LockExcludes
