------------------------ MODULE FileDescriptors_proofs ------------------------
(***************************************************************************)
(* Theorems about the file descriptors: types and the mark, the lock, and  *)
(* the standard streams, for every size of the pool and all devices.       *)
(***************************************************************************)
EXTENDS FileDescriptors, TLAPS

\* The standard descriptors are in use from the start and, redirected, hold
\* their device for good; only devices are ever locked.
PoolInv ==
  /\ TypeOK
  /\ redirected \in {{}, {1}, {0, 1}, Std}
  /\ \A f \in Std : dev[f] # NULL
  /\ \A f \in redirected : dev[f] = Stdio
  /\ redirected # {} => alt_max_fd >= 3
  /\ \A f \in Fd : fd_flags[f] \cap {"EXCL", "DEV"} # {} => dev[f] \in Device
  /\ \A f \in Fd : dev[f] = Stdio => "EXCL" \notin fd_flags[f]

LEMMA Pool == Fd \subseteq Int /\ Std \subseteq Fd /\ Std = {0, 1, 2}
BY PoolAssumption DEF Fd, Std

LEMMA InvInit == Init => PoolInv
<1> SUFFICES ASSUME Init PROVE PoolInv
  OBVIOUS
<1>1. TypeOK
  BY Pool, DeviceAssumption DEF Init, TypeOK, Open
<1> QED
  BY <1>1, Pool, DeviceAssumption DEF Init, PoolInv

\* Nothing but a new descriptor moves the mark, and it never hides one.
LEMMA Mark ==
  ASSUME alt_max_fd \in Fd \cup {-1}, NEW f \in Fd
  PROVE  mark(f) \in Fd /\ mark(f) >= f /\ mark(f) >= alt_max_fd
BY Pool, PoolAssumption DEF mark, Fd

LEMMA NewIsNotStd ==
  ASSUME PoolInv, NEW f \in Fd, alt_get_fd(f)
  PROVE  f \in Int /\ f > 2 /\ f \notin Open /\ dev[f] = NULL
BY Pool, PoolAssumption DEF PoolInv, alt_get_fd, Open, Fd, Std

LEMMA Flags ==
  ASSUME NEW d, NEW fs \in SUBSET Flag
  PROVE  /\ OpenFlags(d, fs) \in SUBSET Flag /\ "EXCL" \notin OpenFlags(d, fs)
         /\ "DEV" \in OpenFlags(d, fs) => d \in Device
BY DEF OpenFlags, Flag, Settable

LEMMA RedirectKeepsInv ==
  ASSUME PoolInv, NEW f \in Std, alt_open_fd(f),
         redirected \cup {f} \in {{1}, {0, 1}, Std}
  PROVE  PoolInv'
<1> USE DEF PoolInv
<1>1. PICK new \in Fd : alt_get_fd(new) /\ alt_max_fd' = mark(new)
  BY DEF alt_open_fd
<1>2. new \in Int /\ new > 2
  BY <1>1, NewIsNotStd
<1>3. alt_max_fd' \in Fd /\ alt_max_fd' >= new /\ alt_max_fd' >= alt_max_fd
  BY <1>1, Mark DEF TypeOK
<1>4. /\ dev' = [dev EXCEPT ![f] = Stdio]
      /\ fd_flags' = [fd_flags EXCEPT ![f] = OpenFlags(Stdio, {})]
      /\ redirected' = redirected \cup {f}
  BY DEF alt_open_fd
<1>5. f \in Fd /\ Stdio \in Device /\ Stdio # NULL
  BY Pool, DeviceAssumption
<1>6. Open' = Open
  BY <1>4, <1>5, Pool DEF Open, TypeOK
<1>7. TypeOK'
  <2>1. /\ dev' \in [Fd -> Device \cup FileSystem \cup {NULL}]
        /\ fd_flags' \in [Fd -> SUBSET Flag] /\ redirected' \subseteq Std
    BY <1>4, <1>5, Flags DEF TypeOK
  <2>2. \A g \in Open' \ Std : g <= alt_max_fd'
    BY <1>2, <1>3, <1>6, Pool, PoolAssumption DEF TypeOK, Open, Fd
  <2> QED
    BY <1>3, <2>1, <2>2 DEF TypeOK
<1>8. /\ redirected' \in {{}, {1}, {0, 1}, Std}
      /\ \A g \in Std : dev'[g] # NULL
      /\ \A g \in redirected' : dev'[g] = Stdio
  <2>1. redirected \subseteq Fd
    BY Pool DEF TypeOK
  <2>2. \A g \in Fd : dev'[g] = IF g = f THEN Stdio ELSE dev[g]
    BY <1>4, <1>5 DEF TypeOK
  <2>3. \A g \in redirected' : g = f \/ g \in redirected
    BY <1>4
  <2> QED
    BY <1>4, <1>5, <2>1, <2>2, <2>3, Pool
<1>9. alt_max_fd' >= 3
  BY <1>2, <1>3, PoolAssumption DEF Fd
<1>10. /\ \A g \in Fd : fd_flags'[g] \cap {"EXCL", "DEV"} # {} => dev'[g] \in Device
       /\ \A g \in Fd : dev'[g] = Stdio => "EXCL" \notin fd_flags'[g]
  BY <1>4, <1>5, Flags DEF TypeOK
<1> QED
  BY <1>7, <1>8, <1>9, <1>10

LEMMA ReleaseEffect ==
  ASSUME TypeOK, NEW f \in Fd, alt_release_fd(f)
  PROVE  /\ dev' = IF f > 2 THEN [dev EXCEPT ![f] = NULL] ELSE dev
         /\ fd_flags' = IF f > 2 THEN [fd_flags EXCEPT ![f] = {}] ELSE fd_flags
BY DEF alt_release_fd, pool

LEMMA ReleaseKeepsInv ==
  ASSUME PoolInv, NEW f \in Fd, alt_release_fd(f), UNCHANGED redirected,
         alt_max_fd' \in Fd \cup {-1}, alt_max_fd' >= alt_max_fd
  PROVE  PoolInv'
<1> USE DEF PoolInv
<1>1. /\ dev' = IF f > 2 THEN [dev EXCEPT ![f] = NULL] ELSE dev
      /\ fd_flags' = IF f > 2 THEN [fd_flags EXCEPT ![f] = {}] ELSE fd_flags
  BY ReleaseEffect
<1>2. Open' \subseteq Open
  BY <1>1, Pool DEF Open, TypeOK
<1>3. TypeOK'
  <2>1. \A g \in Open' \ Std : g <= alt_max_fd'
    BY <1>2, Pool DEF TypeOK, Open, Fd
  <2> QED
    BY <1>1, <2>1 DEF TypeOK
<1>4. \A g \in Std : dev'[g] = dev[g]
  BY <1>1, Pool DEF TypeOK
<1>5. /\ \A g \in Fd : fd_flags'[g] \cap {"EXCL", "DEV"} # {} => dev'[g] \in Device
      /\ \A g \in Fd : dev'[g] = Stdio => "EXCL" \notin fd_flags'[g]
  BY <1>1 DEF TypeOK
<1>6. redirected # {} => alt_max_fd' >= 3
  BY PoolAssumption DEF TypeOK, Fd
<1> QED
  BY <1>3, <1>4, <1>5, <1>6 DEF TypeOK

LEMMA OpenKeepsInv ==
  ASSUME PoolInv, NEW d \in Device \cup FileSystem, NEW fs \in SUBSET Flag,
         alt_open(d, fs)
  PROVE  PoolInv'
<1> USE DEF PoolInv
<1>1. PICK f \in Fd :
        /\ alt_get_fd(f)
        /\ alt_max_fd' = mark(f)
        /\ \/ /\ d \in Device => ~alt_file_locked(f, d)
              /\ dev' = [dev EXCEPT ![f] = d]
              /\ fd_flags' = [fd_flags EXCEPT ![f] = OpenFlags(d, fs)]
           \/ /\ d \in FileSystem \/ alt_file_locked(f, d)
              /\ alt_release_fd(f)
  BY DEF alt_open
<1>2. f \in Int /\ f > 2
  BY <1>1, NewIsNotStd
<1>3. alt_max_fd' \in Fd /\ alt_max_fd' >= f /\ alt_max_fd' >= alt_max_fd
  BY <1>1, Mark DEF TypeOK
<1>4. UNCHANGED redirected
  BY DEF alt_open
<1>5. CASE /\ dev' = [dev EXCEPT ![f] = d]
           /\ fd_flags' = [fd_flags EXCEPT ![f] = OpenFlags(d, fs)]
  <2>1. Open' \subseteq Open \cup {f}
    BY <1>5 DEF Open, TypeOK
  <2>2. \A g \in Open' \ Std : g <= alt_max_fd'
    BY <1>2, <1>3, <2>1, Pool, PoolAssumption DEF TypeOK, Open, Fd
  <2>3. TypeOK'
    BY <1>3, <1>4, <1>5, <2>2, Flags DEF TypeOK
  <2>4. \A g \in Std : dev'[g] = dev[g]
    BY <1>2, <1>5, Pool DEF TypeOK
  <2>5. /\ \A g \in Fd : fd_flags'[g] \cap {"EXCL", "DEV"} # {} => dev'[g] \in Device
        /\ \A g \in Fd : dev'[g] = Stdio => "EXCL" \notin fd_flags'[g]
    BY <1>5, Flags DEF TypeOK
  <2> QED
    BY <1>2, <1>3, <1>4, <2>3, <2>4, <2>5, Pool DEF TypeOK
<1>6. CASE alt_release_fd(f)
  BY <1>3, <1>4, <1>6, ReleaseKeepsInv
<1> QED
  BY <1>1, <1>5, <1>6

\* The flags of one descriptor change, as fcntl and ioctl change them.
LEMMA FlagsKeepInv ==
  ASSUME PoolInv, NEW f \in Fd, NEW fs \in SUBSET Flag,
         fd_flags' = [fd_flags EXCEPT ![f] = fs],
         UNCHANGED <<dev, alt_max_fd, redirected>>,
         fs \cap {"EXCL", "DEV"} # {} => dev[f] \in Device,
         dev[f] = Stdio => "EXCL" \notin fs
  PROVE  PoolInv'
BY DEF PoolInv, TypeOK, Open

\* The lock is not granted for the device of the standard streams, because one
\* of two of them is another descriptor, below the mark.
LEMMA LockRefusesStdio ==
  ASSUME PoolInv, NEW f \in Fd, alt_fd_lock(f)
  PROVE  dev[f] # Stdio
<1> SUFFICES ASSUME dev[f] = Stdio PROVE FALSE
  OBVIOUS
<1>1. PICK g \in {0, 1} : g # f
  OBVIOUS
<1>2. dev[g] = Stdio
  BY <1>1, Pool DEF PoolInv, alt_fd_lock, Running
<1>3. g \in 0 .. alt_max_fd - 1
  BY Pool, PoolAssumption DEF PoolInv, TypeOK, alt_fd_lock, Running, Fd
<1> QED
  BY <1>1, <1>2, <1>3 DEF alt_fd_lock

LEMMA InvNext == PoolInv /\ [Next]_vars => PoolInv'
<1> SUFFICES ASSUME PoolInv, [Next]_vars PROVE PoolInv'
  OBVIOUS
<1>1. CASE alt_io_redirect
  <2>1. CASE redirected = {} /\ alt_open_fd(1)
    BY <2>1, Pool, RedirectKeepsInv
  <2>2. CASE redirected = {1} /\ alt_open_fd(0)
    BY <2>2, Pool, RedirectKeepsInv
  <2>3. CASE redirected = {0, 1} /\ alt_open_fd(2)
    BY <2>3, Pool, RedirectKeepsInv
  <2> QED
    BY <1>1, <2>1, <2>2, <2>3 DEF alt_io_redirect
<1>2. ASSUME NEW d \in Device \cup FileSystem, NEW fs \in SUBSET Flag, alt_open(d, fs)
      PROVE  PoolInv'
  BY <1>2, OpenKeepsInv
<1>3. ASSUME NEW f \in Fd, alt_close(f) PROVE PoolInv'
  BY <1>3, Pool, ReleaseKeepsInv DEF alt_close, PoolInv, TypeOK
<1>4. ASSUME NEW f \in Fd, alt_fd_lock(f) PROVE PoolInv'
  <2> DEFINE fs == fd_flags[f] \cup {"EXCL"}
  <2>1. fd_flags' = [fd_flags EXCEPT ![f] = fs] /\ UNCHANGED <<dev, alt_max_fd, redirected>>
    BY <1>4 DEF alt_fd_lock
  <2>2. fs \in SUBSET Flag
    BY DEF PoolInv, TypeOK, Flag
  <2>3. dev[f] \in Device
    BY <1>4 DEF alt_fd_lock, PoolInv
  <2>4. dev[f] # Stdio
    BY <1>4, LockRefusesStdio
  <2> QED
    BY <2>1, <2>2, <2>3, <2>4, FlagsKeepInv
<1>5. ASSUME NEW f \in Fd, alt_fd_unlock(f) PROVE PoolInv'
  <2> DEFINE fs == fd_flags[f] \ {"EXCL"}
  <2>1. fd_flags' = [fd_flags EXCEPT ![f] = fs] /\ UNCHANGED <<dev, alt_max_fd, redirected>>
    BY <1>5 DEF alt_fd_unlock
  <2>2. /\ fs \in SUBSET Flag /\ "EXCL" \notin fs
        /\ fs \cap {"EXCL", "DEV"} # {} => dev[f] \in Device
    BY DEF PoolInv, TypeOK
  <2> QED
    BY <2>1, <2>2, FlagsKeepInv
<1>6. ASSUME NEW f \in Fd, NEW gs \in SUBSET Flag, alt_fcntl(f, gs) PROVE PoolInv'
  <2> DEFINE fs == (fd_flags[f] \ Settable) \cup (gs \cap Settable)
  <2>1. fd_flags' = [fd_flags EXCEPT ![f] = fs] /\ UNCHANGED <<dev, alt_max_fd, redirected>>
    BY <1>6 DEF alt_fcntl
  <2>2. /\ fs \in SUBSET Flag
        /\ fs \cap {"EXCL", "DEV"} # {} => dev[f] \in Device
        /\ dev[f] = Stdio => "EXCL" \notin fs
    BY DEF PoolInv, TypeOK, Settable, Flag
  <2> QED
    BY <2>1, <2>2, FlagsKeepInv
<1>7. CASE UNCHANGED vars
  BY <1>7 DEF vars, pool, PoolInv, TypeOK, Open
<1> QED
  BY <1>1, <1>2, <1>3, <1>4, <1>5, <1>6, <1>7 DEF Next

LEMMA PoolInvariant == Spec => []PoolInv
BY InvInit, InvNext, PTL DEF Spec

-----------------------------------------------------------------------------
\* Every field keeps its type, and no descriptor that was allocated lies above
\* the mark that alt_file_locked searches up to.
THEOREM TypeCorrect == Spec => []TypeOK
<1>1. PoolInv => TypeOK
  BY DEF PoolInv
<1> QED
  BY <1>1, PoolInvariant, PTL

\* No sequence of calls locks the device of the standard streams, although
\* alt_fd_lock does not search the whole pool.
THEOREM StdioFree == Spec => []StdioNeverLocked
<1>1. PoolInv => StdioNeverLocked
  BY DEF PoolInv, StdioNeverLocked, Locked, Open
<1> QED
  BY <1>1, PoolInvariant, PTL

\* Whoever is open when main runs is at the mark or below.
LEMMA LockedIsFound ==
  ASSUME PoolInv, Running, NEW f \in Fd, alt_get_fd(f), NEW d, Locked(d)
  PROVE  d \in Device /\ alt_file_locked(f, d)
<1>1. PICK g \in Open : dev[g] = d /\ "EXCL" \in fd_flags[g]
  BY DEF Locked
<1>2. g \in Fd /\ g # f /\ dev[g] \in Device
  BY <1>1, NewIsNotStd DEF Open, PoolInv
<1>3. mark(f) \in Int /\ mark(f) >= alt_max_fd /\ alt_max_fd \in Int
  <2>1. alt_max_fd \in Fd \cup {-1}
    BY DEF PoolInv, TypeOK
  <2>2. alt_max_fd \in Int
    BY <2>1, PoolAssumption DEF Fd
  <2>3. mark(f) \in Fd /\ mark(f) >= alt_max_fd
    BY <2>1, Mark
  <2> QED
    BY <2>2, <2>3, PoolAssumption DEF Fd
<1>4. g <= alt_max_fd
  BY <1>1, Pool DEF PoolInv, Running, TypeOK
<1>5. g \in 0 .. mark(f)
  BY <1>2, <1>3, <1>4 DEF Fd
<1> QED
  BY <1>1, <1>2, <1>5 DEF alt_file_locked

\* While a device is locked, open does not succeed for it: the search up to the
\* mark finds the lock wherever it is.
THEOREM LockHolds == Spec => LockExcludes
<1> DEFINE Excluded == \A f \in Fd : dev[f] = NULL /\ dev'[f] # NULL => ~Locked(dev'[f])
<1>1. ASSUME PoolInv, Next PROVE Excluded
  <2> SUFFICES ASSUME NEW f \in Fd, dev[f] = NULL, dev'[f] # NULL, Locked(dev'[f])
               PROVE  FALSE
    OBVIOUS
  <2>1. dev \in [Fd -> Device \cup FileSystem \cup {NULL}]
    BY <1>1 DEF PoolInv, TypeOK
  <2>2. CASE alt_io_redirect
    BY <1>1, <2>1, <2>2, Pool DEF alt_io_redirect, alt_open_fd, PoolInv
  <2>3. ASSUME NEW d \in Device \cup FileSystem, NEW fs \in SUBSET Flag, alt_open(d, fs)
        PROVE  FALSE
    <3>1. PICK g \in Fd :
            /\ alt_get_fd(g)
            /\ \/ /\ d \in Device => ~alt_file_locked(g, d)
                  /\ dev' = [dev EXCEPT ![g] = d]
               \/ alt_release_fd(g)
      BY <2>3 DEF alt_open
    <3>2. CASE /\ d \in Device => ~alt_file_locked(g, d)
               /\ dev' = [dev EXCEPT ![g] = d]
      <4>1. f = g /\ dev'[f] = d
        BY <2>1, <3>2
      <4>2. Running
        BY <2>3 DEF alt_open
      <4> QED
        BY <1>1, <3>1, <3>2, <4>1, <4>2, LockedIsFound
    <3>3. CASE alt_release_fd(g)
      BY <2>1, <3>3, ReleaseEffect, <1>1 DEF PoolInv
    <3> QED
      BY <3>1, <3>2, <3>3
  <2>4. ASSUME NEW g \in Fd, alt_close(g) PROVE FALSE
    BY <1>1, <2>1, <2>4, ReleaseEffect DEF alt_close, PoolInv
  <2>5. ASSUME NEW g \in Fd, alt_fd_lock(g) \/ alt_fd_unlock(g) \/ UNCHANGED dev PROVE FALSE
    BY <2>5 DEF alt_fd_lock, alt_fd_unlock
  <2>6. ASSUME NEW g \in Fd, NEW fs \in SUBSET Flag, alt_fcntl(g, fs) PROVE FALSE
    BY <2>6 DEF alt_fcntl
  <2> QED
    BY <1>1, <2>2, <2>3, <2>4, <2>5, <2>6 DEF Next
<1>2. PoolInv /\ [Next]_vars => [Excluded]_vars
  BY <1>1
<1> QED
  BY <1>2, PoolInvariant, PTL DEF Spec, LockExcludes
=============================================================================
