---------------------------- MODULE FileDescriptors ----------------------------
(***************************************************************************)
(* The file descriptors of the HAL (alt_open.c, alt_close.c, alt_get_fd.c, *)
(* alt_fd_lock.c, alt_io_redirect.c and others): a pool, a high water mark,*)
(* and devices that a descriptor may lock for its exclusive use.  One      *)
(* thread makes the calls; the semaphores of the code are empty in this    *)
(* build.                                                                  *)
(***************************************************************************)
EXTENDS Integers, FiniteSets

CONSTANTS ALT_MAX_FD,   \* the size of the pool
          Device,       \* the registered devices, alt_dev_null and others
          FileSystem,   \* the registered file systems
          alt_dev_null, Stdio,   \* what the standard streams are redirected to
          NULL

ASSUME PoolAssumption == ALT_MAX_FD \in Nat /\ ALT_MAX_FD > 3
ASSUME DeviceAssumption ==
  /\ Device \cap FileSystem = {} /\ NULL \notin Device \cup FileSystem
  /\ alt_dev_null \in Device /\ Stdio \in Device

VARIABLES dev, fd_flags,   \* alt_fd_list, without the access modes
          alt_max_fd,
          redirected             \* the streams that alt_io_redirect is done with

pool == <<dev, fd_flags>>
vars == <<pool, alt_max_fd, redirected>>

Fd == 0 .. ALT_MAX_FD - 1
Std == 0 .. 2
\* "NONBLOCK" stands for the flags that fcntl may change.
Settable == {"NONBLOCK"}
Flag == {"EXCL", "DEV"} \cup Settable
Open == {f \in Fd : dev[f] # NULL}

Init == /\ dev = [f \in Fd |-> IF f \in Std THEN alt_dev_null ELSE NULL]
        /\ fd_flags = [f \in Fd |-> {}]
        /\ alt_max_fd = -1
        /\ redirected = {}

\* The first free descriptor, if there is one.
alt_get_fd(f) == f \in Fd \ Open /\ \A g \in Fd \ Open : f <= g

mark(f) == IF f > alt_max_fd THEN f ELSE alt_max_fd

\* Mutant: the search stops before the highest descriptor, as that of
\* alt_fd_lock does.
alt_file_lockedBelow(f, d) ==
  \E g \in 0 .. alt_max_fd - 1 : g # f /\ dev[g] = d /\ "EXCL" \in fd_flags[g]

\* The mark is the new one already.
alt_file_locked(f, d) ==
  \E g \in 0 .. mark(f) : g # f /\ dev[g] = d /\ "EXCL" \in fd_flags[g]

\* What a successful open puts into the flags.
OpenFlags(d, fs) == (fs \ {"EXCL", "DEV"}) \cup (IF d \in Device THEN {"DEV"} ELSE {})

\* Mutant: any descriptor may be released.
alt_release_fdAny(f) == dev' = [dev EXCEPT ![f] = NULL] /\ fd_flags' = [fd_flags EXCEPT ![f] = {}]

alt_release_fd(f) ==
  IF f > 2 THEN dev' = [dev EXCEPT ![f] = NULL] /\ fd_flags' = [fd_flags EXCEPT ![f] = {}]
  ELSE UNCHANGED pool

-----------------------------------------------------------------------------
\* A stream is opened like a file, what the new descriptor holds is copied,
\* and it is released.
alt_open_fd(f) ==
  /\ f \notin redirected
  /\ redirected' = redirected \cup {f}
  /\ \E new \in Fd : /\ alt_get_fd(new)
                     /\ alt_max_fd' = mark(new)
  /\ dev' = [dev EXCEPT ![f] = Stdio]
  /\ fd_flags' = [fd_flags EXCEPT ![f] = OpenFlags(Stdio, {})]

\* Standard output first, then input, then error.
alt_io_redirect == \/ redirected = {} /\ alt_open_fd(1)
                   \/ redirected = {1} /\ alt_open_fd(0)
                   \/ redirected = {0, 1} /\ alt_open_fd(2)

\* main runs after the redirection.
Running == redirected = Std

\* open(): the open function of a file system may refuse.
alt_open(d, fs) ==
  /\ Running
  /\ \E f \in Fd :
       /\ alt_get_fd(f)
       /\ alt_max_fd' = mark(f)
       /\ \/ /\ d \in Device => ~alt_file_locked(f, d)
             /\ dev' = [dev EXCEPT ![f] = d]
             /\ fd_flags' = [fd_flags EXCEPT ![f] = OpenFlags(d, fs)]
          \/ /\ d \in FileSystem \/ alt_file_locked(f, d)
             /\ alt_release_fd(f)
  /\ UNCHANGED redirected

\* close(): the descriptor is released whatever the close function says.
alt_close(f) == /\ Running /\ f \in Open
                /\ alt_release_fd(f)
                /\ UNCHANGED <<alt_max_fd, redirected>>

\* fcntl(F_SETFL)
alt_fcntl(f, fs) ==
  /\ Running /\ f \in Open
  /\ fd_flags' = [fd_flags EXCEPT ![f] = (@ \ Settable) \cup (fs \cap Settable)]
  /\ UNCHANGED <<dev, alt_max_fd, redirected>>

\* ioctl(TIOCEXCL): the loop does not come to the highest descriptor.
alt_fd_lock(f) ==
  /\ Running /\ f \in Open /\ "DEV" \in fd_flags[f]
  /\ ~\E g \in 0 .. alt_max_fd - 1 : g # f /\ dev[g] = dev[f]
  /\ fd_flags' = [fd_flags EXCEPT ![f] = @ \cup {"EXCL"}]
  /\ UNCHANGED <<dev, alt_max_fd, redirected>>

\* ioctl(TIOCNXCL)
alt_fd_unlock(f) ==
  /\ Running /\ f \in Open /\ "DEV" \in fd_flags[f]
  /\ fd_flags' = [fd_flags EXCEPT ![f] = @ \ {"EXCL"}]
  /\ UNCHANGED <<dev, alt_max_fd, redirected>>

Next == \/ alt_io_redirect
        \/ \E d \in Device \cup FileSystem, fs \in SUBSET Flag : alt_open(d, fs)
        \/ \E f \in Fd : alt_close(f) \/ alt_fd_lock(f) \/ alt_fd_unlock(f)
        \/ \E f \in Fd, fs \in SUBSET Flag : alt_fcntl(f, fs)

Spec == Init /\ [][Next]_vars

-----------------------------------------------------------------------------
\* The types, and what the mark is for: no descriptor in use lies above it,
\* except the three that were never allocated.
TypeOK == /\ dev \in [Fd -> Device \cup FileSystem \cup {NULL}]
          /\ fd_flags \in [Fd -> SUBSET Flag]
          /\ alt_max_fd \in Fd \cup {-1}
          /\ redirected \subseteq Std
          /\ \A f \in Open \ Std : f <= alt_max_fd

Locked(d) == \E f \in Open : dev[f] = d /\ "EXCL" \in fd_flags[f]

\* alt_fd_lock: "Further calls to open() for this device will fail until the
\* lock is released", although open searches only up to the mark.
LockExcludes ==
  [][\A f \in Fd : dev[f] = NULL /\ dev'[f] # NULL => ~Locked(dev'[f])]_vars

\* Nobody takes the standard streams for itself: three descriptors hold their
\* device, no sequence of opens and closes takes one of them away, and the lock
\* finds another than its own, although it does not search the whole pool.
StdioNeverLocked == ~Locked(Stdio)

\* alt_fd_lock grants the lock "If there are no other open file descriptors
\* which reference the same device": who has it is alone.  The loop of the code
\* overlooks the highest descriptor, so it is not.
ExclusiveMeansAlone ==
  \A f, g \in Open : "EXCL" \in fd_flags[f] /\ dev[f] = dev[g] => f = g
=============================================================================
