--------------------------------- MODULE Vfs ---------------------------------
(***************************************************************************)
(* The virtual file system (vfs.c) with the file system of the serial      *)
(* devices (fs_device.c): file systems mounted at and unmounted from       *)
(* directories, paths that lead to them, the current directory, open       *)
(* files, listings of a directory, the enumeration of the drives, and the  *)
(* announcements of what changed.                                          *)
(*                                                                         *)
(* A path is the sequence of its names, "/" being << >>; a name alone is a *)
(* relative path, and no name begins another.  A mount is known by its     *)
(* file system, that of the root by "/".  The file systems are external:   *)
(* they may refuse what they are asked, and keep a current directory of    *)
(* their own.                                                              *)
(***************************************************************************)
EXTENDS Integers, Sequences, FiniteSets

CONSTANTS
    FS,           \* the file systems, but the null file system
    Where,        \* the directory each is mounted at
    Hidden,       \* those mounted hidden
    Nameless,     \* those without a name, which are no drives
    DevFS,        \* the file system of the devices (fs_device.c)
    Booted,       \* those mounted at startup and never unmounted
    FileNames,    \* the names of directories and files clients give, ".." among them
    Devices,      \* the names of the devices
    MaxFiles, MaxDepth,
    FileWindows   \* what clients do that breaks the properties: see May

Root == << >>
Null == "null"
Nobody == "none"
AtRoot == {f \in FS : Where[f] = Root}

\* File systems are mounted at the root, or at directories of it.
ASSUME VfsAssumption ==
    /\ FS \cap {"/", Null, Nobody} = {} /\ Nobody \notin Devices /\ FileNames \cup Devices \subseteq STRING
    /\ DevFS \in Booted /\ Booted \subseteq FS \ AtRoot /\ IsFiniteSet(Booted)
    /\ Where \in [FS -> Seq(STRING)]
    /\ \A f \in FS : Len(Where[f]) <= 1
    /\ \A f, g \in FS \ AtRoot : Where[f] = Where[g] => f = g

VARIABLES
    rootfs,          \* root.vfs
    place, mounts,   \* the place of each in the list of mounts, 0 when it is not there; its length
    cwd, cwdmount,
    at,              \* the current directory of each file system
    files,           \* the open files
    stale,           \* those that changed, which is not announced yet
    devices,
    listing,         \* the directory that is listed
    drives           \* the enumeration of the drives

mountVars == <<rootfs, place, mounts>>
cwdVars == <<cwd, cwdmount>>
fileVars == <<files, stale, devices>>
vfsVars == <<mountVars, cwdVars, at, fileVars, listing, drives>>

\* What clients do only where the code copes with it, unless FileWindows has it.
May(window, safe) == window \notin FileWindows => safe

-----------------------------------------------------------------------------
(* Paths and mounts *)

Mounted == {f \in FS : place[f] > 0}
FsOf(mount) == IF mount = "/" THEN rootfs ELSE mount
PathOf(mount) == IF mount = "/" THEN Root ELSE Where[mount]
PlaceOf(mount) == IF mount = "/" THEN 0 ELSE place[mount]
IsHidden(mount) == FsOf(mount) \in Hidden \cup {Null}
Below(p, dir) == Len(dir) <= Len(p) /\ SubSeq(p, 1, Len(dir)) = dir

FirstOf(list) ==
    IF list = {} THEN Nobody ELSE CHOOSE f \in list : \A g \in list : PlaceOf(f) <= PlaceOf(g)

\* The mount of a full path: the one mounted there, or the first it lies below.
GetMount(p) ==
    LET there == {f \in Mounted : Where[f] = p}
        above == {f \in Mounted : Below(p, Where[f])}
    IN IF p = Root \/ above = {} THEN "/" ELSE FirstOf(IF there # {} THEN there ELSE above)

MountOf(p, relative) == IF relative THEN cwdmount ELSE GetMount(p)

GetFilename(mount, p, relative) ==
    IF relative THEN p ELSE SubSeq(p, Len(PathOf(mount)) + 1, Len(p))

Relative == {<<n>> : n \in FileNames \cup Devices}
FullPaths == {Root} \cup {Where[f] : f \in FS} \cup {Where[f] \o <<n>> : f \in FS, n \in FileNames \ {".."}}
             \cup {Where[DevFS] \o <<d>> : d \in Devices}

-----------------------------------------------------------------------------
(* Mounting *)

\* At the end of the list.
VfsMount(f) ==
    /\ f # rootfs /\ place[f] = 0
    /\ f \in AtRoot => rootfs = Null
    /\ May("mount over", f \in AtRoot \/ ~Below(cwd, Where[f]))
    /\ IF f \in AtRoot THEN rootfs' = f /\ UNCHANGED <<place, mounts>>
       ELSE place' = [place EXCEPT ![f] = mounts + 1] /\ mounts' = mounts + 1 /\ UNCHANGED rootfs
    /\ at' = [at EXCEPT ![f] = Root]
    /\ UNCHANGED <<cwdVars, fileVars, listing, drives>>

InUse(f) == \/ FsOf(cwdmount) = f
            \/ \E file \in files : file.fs = f
            \/ listing.open /\ (listing.fs = f \/ f \in listing.left)
            \/ drives.open /\ drives.at # Nobody /\ FsOf(drives.at) = f

\* For the property: what is gone need not be shown, and is a new drive when it comes back.
Without(mount) == [drives EXCEPT !.due = @ \ {mount}, !.told[mount] = 0]

VfsUnmount(f) ==
    /\ f = rootfs \/ f \in Mounted \ Booted
    /\ May("unmount", ~InUse(f))
    /\ IF f = rootfs THEN rootfs' = Null /\ drives' = Without("/") /\ UNCHANGED <<place, mounts>>
       ELSE /\ place' = [g \in FS |-> IF g = f THEN 0 ELSE IF place[g] > place[f] THEN place[g] - 1 ELSE place[g]]
            /\ mounts' = mounts - 1
            /\ drives' = Without(f) /\ UNCHANGED rootfs
    /\ UNCHANGED <<cwdVars, at, fileVars, listing>>

-----------------------------------------------------------------------------
(* Files, on the file systems and the devices *)

\* A client that keeps what it read of a file system has to read it again when it is changed,
\* and does when that is announced.  Nobody looks at the hidden ones.
Changed(f) == IF f \in Hidden THEN stale ELSE stale \cup {f}

\* Bounds: files, a listing and the enumeration of the drives are not open together, and
\* are opened, and kept open, in a directory something is mounted at.
Idle == files = {} /\ ~listing.open /\ ~drives.open
AtMount == cwd \in {Root} \cup {Where[f] : f \in FS} /\ \A f \in FS : at[f] = Root

NewHandle == CHOOSE i \in 1..MaxFiles : \A file \in files : file.id # i
Handle(f, update, writes, device) ==
    [id |-> NewHandle, fs |-> f, update |-> update, writes |-> writes, device |-> device]

\* A device is opened for writing, by one at a time; its stream is claimed once.
OpenDevice(d, mode, claimable) ==
    LET device == devices[d]
        claimed == mode = "w" /\ (device.claimed \/ claimable)
        opened == claimed /\ ~device.open
    IN /\ devices' = [devices EXCEPT ![d] =
              [claimed |-> device.claimed \/ claimed, open |-> device.open \/ opened,
               claims |-> IF claimed /\ ~device.claimed THEN device.claims + 1 ELSE device.claims]]
       /\ files' = IF opened THEN files \cup {Handle(DevFS, ~IsHidden(DevFS), FALSE, d)} ELSE files
       /\ UNCHANGED stale

VfsOpen(p, relative, mode, granted) ==
    LET m == MountOf(p, relative)
        f == FsOf(m)
        name == GetFilename(m, p, relative)
    IN /\ Len(p) > 0 /\ ~listing.open /\ ~drives.open /\ AtMount
       /\ \E i \in 1..MaxFiles : \A file \in files : file.id # i
       /\ May("append", mode # "a")
       /\ IF f = DevFS
          THEN /\ ~relative
               /\ \E d \in Devices : name = <<d>> /\ OpenDevice(d, mode, granted)
          ELSE /\ f # Null /\ granted
               /\ files' = files \cup {Handle(f, ~IsHidden(m) /\ mode = "w", mode # "r", Nobody)}
               /\ stale' = IF mode = "w" THEN Changed(f) ELSE stale
               /\ UNCHANGED devices
       /\ UNCHANGED <<mountVars, cwdVars, at, listing, drives>>

VfsWrite(file) ==
    /\ file.writes
    /\ stale' = Changed(file.fs)
    /\ UNCHANGED <<mountVars, cwdVars, at, files, devices, listing, drives>>

VfsClose(file) ==
    /\ files' = files \ {file}
    /\ stale' = IF file.update THEN stale \ {file.fs} ELSE stale
    /\ devices' = [d \in Devices |-> IF d = file.device THEN [devices[d] EXCEPT !.open = FALSE] ELSE devices[d]]
    /\ UNCHANGED <<mountVars, cwdVars, at, listing, drives>>

\* vfs_unlink, vfs_mkdir, vfs_rmdir, and vfs_rename within a file system: changed, and announced.
VfsChange(p, relative) ==
    LET m == MountOf(p, relative)
        f == FsOf(m)
    IN /\ f \notin {Null, DevFS}
       /\ stale' = IF IsHidden(m) THEN Changed(f) ELSE Changed(f) \ {f}
       /\ UNCHANGED <<mountVars, cwdVars, at, files, devices, listing, drives>>

VfsRename(from, to) == GetMount(from) = GetMount(to) /\ VfsChange(from, FALSE)

-----------------------------------------------------------------------------
(* The current directory *)

Up(p) == IF p = Root THEN Root ELSE SubSeq(p, 1, Len(p) - 1)
Into(p, name) == IF name = ".." THEN Up(p) ELSE Append(p, name)

\* The file system's own is given the path as the client gave it.
FChdir(f, p, relative, granted) ==
    IF f \in {Null, DevFS} \/ ~granted THEN at
    ELSE [at EXCEPT ![f] = IF relative THEN Into(@, p[1]) ELSE p]

\* vfs_chdir to a name, from a directory that is not the root
VfsChdirOn(name, granted) ==
    /\ Idle /\ cwd # Root /\ (name # ".." => Len(cwd) < MaxDepth)
    /\ May("fails", granted /\ FsOf(cwdmount) \notin {Null, DevFS})
    /\ May("up", name = ".." => Len(cwd) > 1 /\ cwd # PathOf(cwdmount))
    /\ cwd' = Into(cwd, name)
    /\ at' = FChdir(FsOf(cwdmount), <<name>>, TRUE, granted)
    /\ UNCHANGED <<mountVars, cwdmount, fileVars, listing, drives>>

\* vfs_chdir to a full path, or to a name from the root
VfsChdir(p, relative, granted) ==
    LET m == GetMount(p)
        itself == m # "/" /\ Len(p) = 1
    IN /\ Idle /\ (relative => cwd = Root)
       /\ May("up", relative => p # <<"..">>)
       /\ May("back", m # "/" => at[m] = Root)
       /\ May("inside", m = "/" \/ itself)
       /\ May("fails", granted /\ (itself \/ p = Root \/ FsOf(m) \notin {Null, DevFS}))
       /\ cwd' = p /\ cwdmount' = m
       /\ at' = IF itself THEN at ELSE FChdir(FsOf(m), p, relative, granted)
       /\ UNCHANGED <<mountVars, fileVars, listing, drives>>

-----------------------------------------------------------------------------
(* Listings of a directory: what the file system lists, then the mounts *)

NoListing == [open |-> FALSE, fs |-> Null, own |-> Nobody, left |-> {}, due |-> {},
              told |-> [f \in FS |-> 0], over |-> FALSE]

Visible(list) == {f \in list : ~IsHidden(f)}
BehindOrAt(mount) == {f \in Mounted : place[f] >= PlaceOf(mount)}   \* Mutant
Behind(mount) == {f \in Mounted : place[f] > PlaceOf(mount)}

\* The null file system lists the mounts itself, the first even when it is hidden.
VfsOpendir(p) ==
    LET m == GetMount(p)
        below == Visible({f \in Mounted \ {m} : Below(Where[f], p)})
    IN /\ Idle /\ AtMount
       /\ FsOf(m) # DevFS /\ (FsOf(m) = Null => p = Root)
       /\ May("null", FsOf(m) # Null)
       /\ listing' = [open |-> TRUE, fs |-> FsOf(m), own |-> IF FsOf(m) = Null THEN FirstOf(Mounted) ELSE Nobody,
                      left |-> below, due |-> below, told |-> [f \in FS |-> 0], over |-> FALSE]
       /\ UNCHANGED <<mountVars, cwdVars, at, fileVars, drives>>

VfsReaddir ==
    LET told == IF listing.own # Nobody THEN listing.own ELSE FirstOf(listing.left)
    IN /\ listing.open /\ ~listing.over
       /\ listing' = IF told = Nobody THEN [listing EXCEPT !.over = TRUE]
                     ELSE IF told = listing.own
                     THEN [listing EXCEPT !.told[told] = @ + 1, !.own = FirstOf(Visible(Behind(told)))]
                     ELSE [listing EXCEPT !.told[told] = @ + 1, !.left = @ \ {told}]
       /\ UNCHANGED <<mountVars, cwdVars, at, fileVars, drives>>

VfsClosedir ==
    /\ listing.open
    /\ listing' = NoListing
    /\ UNCHANGED <<mountVars, cwdVars, at, fileVars, drives>>

-----------------------------------------------------------------------------
(* The enumeration of the drives *)

NoDrives == [open |-> FALSE, at |-> Nobody, hiddenToo |-> FALSE, due |-> {},
             told |-> [m \in FS \cup {"/"} |-> 0]]

IsDrive(mount) == ~IsHidden(mount) /\ FsOf(mount) \notin Nameless

\* From the first that is not hidden.
VfsDrivesOpen(hiddenToo) ==
    LET first == FirstOf(Visible(Mounted \cup {"/"}))
    IN /\ Idle /\ AtMount /\ first # Nobody
       /\ drives' = [open |-> TRUE, at |-> first, hiddenToo |-> hiddenToo,
                     due |-> {m \in Mounted \cup {"/"} : IsDrive(m)}, told |-> [m \in FS \cup {"/"} |-> 0]]
       /\ UNCHANGED <<mountVars, cwdVars, at, fileVars, listing>>

VfsDrivesRead ==
    LET next == {f \in Behind(drives.at) \ Nameless : ~IsHidden(f) \/ drives.hiddenToo}
    IN /\ drives.open /\ drives.at # Nobody
       /\ drives' = [drives EXCEPT !.told[drives.at] = @ + 1, !.at = FirstOf(next)]
       /\ UNCHANGED <<mountVars, cwdVars, at, fileVars, listing>>

VfsDrivesClose ==
    /\ drives.open
    /\ drives' = NoDrives
    /\ UNCHANGED <<mountVars, cwdVars, at, fileVars, listing>>

-----------------------------------------------------------------------------
VfsInit ==
    /\ rootfs = Null /\ mounts = Cardinality(Booted)
    /\ place \in {p \in [FS -> 0..Cardinality(Booted)] :
                     /\ \A f \in FS : p[f] > 0 <=> f \in Booted
                     /\ \A f, g \in Booted : p[f] = p[g] => f = g}
    /\ cwd = Root /\ cwdmount = "/" /\ at = [f \in FS |-> Root]
    /\ files = {} /\ stale = {} /\ devices = [d \in Devices |-> [claimed |-> FALSE, claims |-> 0, open |-> FALSE]]
    /\ listing = NoListing
    /\ drives = NoDrives

VfsNext ==
    \/ \E f \in FS : VfsMount(f) \/ VfsUnmount(f)
    \/ \E mode \in {"r", "w", "a"}, granted \in BOOLEAN :
          \/ \E p \in FullPaths : VfsOpen(p, FALSE, mode, granted)
          \/ \E p \in Relative : VfsOpen(p, TRUE, mode, granted)
    \/ \E file \in files : VfsWrite(file) \/ VfsClose(file)
    \/ \E p \in FullPaths : VfsChange(p, FALSE) \/ VfsOpendir(p)
    \/ \E p \in Relative : VfsChange(p, TRUE)
    \/ \E from, to \in FullPaths : VfsRename(from, to)
    \/ \E granted \in BOOLEAN :
          \/ \E name \in FileNames \cup Devices : VfsChdirOn(name, granted)
          \/ \E p \in FullPaths : VfsChdir(p, FALSE, granted)
          \/ \E p \in Relative : VfsChdir(p, TRUE, granted)
    \/ VfsReaddir \/ VfsClosedir
    \/ \E hiddenToo \in BOOLEAN : VfsDrivesOpen(hiddenToo)
    \/ VfsDrivesRead \/ VfsDrivesClose

VfsSpec == VfsInit /\ [][VfsNext]_vfsVars

-----------------------------------------------------------------------------
(* Properties *)

\* A full path leads to the file system mounted nearest to it, under the name it has there
\* (get_mount, get_filename).
Routed ==
    \A p \in FullPaths :
        LET m == GetMount(p)
        IN /\ m = "/" \/ m \in Mounted
           /\ PathOf(m) \o GetFilename(m, p, FALSE) = p
           /\ \A f \in Mounted : Below(p, Where[f]) => m = f

\* The current directory that is shown, and that relative names are looked up in, is the one
\* the file system is in: the virtual file system and the mounted one keep it apart (vfs_chdir).
SameDirectory ==
    /\ cwdmount = GetMount(cwd)
    /\ FsOf(cwdmount) \notin {Null, DevFS} => cwd = PathOf(cwdmount) \o at[FsOf(cwdmount)]

\* A listing names each visible file system that was mounted below the directory once, and
\* the enumeration of the drives each drive once, whatever is mounted and unmounted meanwhile
\* (vfs_readdir, vfs_drives_read).
ListedOnce ==
    /\ listing.open =>
          /\ \A f \in FS : listing.told[f] <= 1
          /\ listing.over => listing.due = {f \in FS : listing.told[f] = 1}
    /\ drives.open =>
          /\ \A m \in FS \cup {"/"} : drives.told[m] <= 1
          /\ drives.at = Nobody => \A m \in drives.due : drives.told[m] = 1
          /\ \A m \in FS \cup {"/"} : drives.told[m] > 0 => ~IsHidden(m) \/ drives.hiddenToo

\* What changed on a visible file system has been announced, or will be when a file that is
\* still open is closed (on_fs_changed).
ChangesAnnounced == \A f \in stale : \E file \in files : file.fs = f /\ file.update

\* A device is open for one client at a time, its stream claimed once, and freed by the close
\* (fs_open, fs_close).
DevicesOwned ==
    /\ \A d \in Devices : devices[d].claims <= 1 /\ (devices[d].open <=> \E file \in files : file.device = d)
    /\ \A one, other \in files : one.device = other.device /\ one.device # Nobody => one = other

VfsSound == Routed /\ SameDirectory /\ ListedOnce /\ ChangesAnnounced /\ DevicesOwned
=============================================================================
