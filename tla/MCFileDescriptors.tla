--------------------------- MODULE MCFileDescriptors ---------------------------
(***************************************************************************)
(* The devices of the system, and a file system, for TLC.                  *)
(***************************************************************************)
EXTENDS FileDescriptors

CONSTANTS jtag_uart, files
Devices == {alt_dev_null, jtag_uart}
FileSystems == {files}
=============================================================================
