------------------------------ MODULE NvsBuffer ------------------------------
(***************************************************************************)
(* The RAM copy of the non-volatile storage (nvs_buffer.c): writes go to   *)
(* RAM and mark their block dirty; dirty blocks are written to the         *)
(* physical storage when the machine is idle.  Each block carries a        *)
(* checksum, so that one whose write was interrupted reads as Torn.        *)
(*                                                                         *)
(* A buffer is a record: ram and phys are the contents of the blocks,      *)
(* dirty are the flags of settings_dirty_t, isDirty its summary.  What the *)
(* code forgets is kept for the properties only: lost are the blocks whose *)
(* write failed while their flag was cleared.                              *)
(***************************************************************************)
EXTENDS Integers

CONSTANTS StartupLines, Coords, ToolData,  \* numbers of the blocks of a kind
          Storage,      \* "EEPROM" (or FRAM), "Flash" or "None"
          Unreliable,   \* blocks whose physical write may fail
          Torn          \* what a block reads as when its checksum is wrong

ASSUME StorageKind == Storage \in {"EEPROM", "Flash", "None"}

Kinds == <<"version", "global", "build", "startup", "coord", "driver", "tool">>
Version == <<"version", 0>>
Global == <<"global", 0>>
Build == <<"build", 0>>
Driver == <<"driver", 0>>
Startup(i) == <<"startup", i>>
Coord(i) == <<"coord", i>>
Tool(i) == <<"tool", i>>
Blocks == {Version, Global, Build, Driver} \cup {Startup(i) : i \in StartupLines}
          \cup {Coord(i) : i \in Coords} \cup {Tool(i) : i \in ToolData}

\* The order in which dirty blocks are written
Rank(b) == CHOOSE k \in DOMAIN Kinds : Kinds[k] = b[1]
Before(a, b) == Rank(a) < Rank(b) \/ (a[1] = b[1] /\ a[2] > b[2])

\* The buffer that holds what the storage holds, when it was read or is off
Buffer(phys) == [ram |-> phys, phys |-> phys, dirty |-> {}, isDirty |-> FALSE, lost |-> {}]

ReadOk(n, b) == n.ram[b] # Torn

\* One block, and the contents of some blocks over those of all
One(b, v) == [x \in {b} |-> v]
Over(values, all) == [b \in Blocks |-> IF b \in DOMAIN values THEN values[b] ELSE all[b]]

\* memcpy_to_ram of the blocks in DOMAIN values.  A pending version write
\* makes every write dirty.
WriteUnflagged(n, values) == [n EXCEPT !.ram = Over(values, @), !.isDirty = TRUE]
Write(n, values) ==
    LET changed == {b \in DOMAIN values : (n.ram[b] # values[b]) \/ Version \in n.dirty}
        dirty   == IF Storage = "None" THEN {} ELSE changed
    IN [n EXCEPT !.ram = Over(values, @), !.dirty = @ \cup dirty, !.isDirty = @ \/ dirty # {}]

\* ram_put_byte at address 0: only the flag of the version is set.
PutVersion(n) == [n EXCEPT !.ram[Version] = "now", !.dirty = @ \cup {Version}]

\* The flag of a startup line is cleared before its write and not set again
\* when that fails; that of the version is not part of the summary.
SyncBlocks(n, failed) ==
    LET written == n.dirty \ failed
        left    == (n.dirty \cap failed) \ {Startup(i) : i \in StartupLines}
    IN [n EXCEPT !.phys = [b \in Blocks |-> IF b \in written THEN n.ram[b] ELSE @[b]],
                 !.dirty = left,
                 !.isDirty = left \ {Version} # {},
                 !.lost = (@ \cup n.dirty) \ (written \cup left)]

\* The flags are cleared also when the last retry failed.
SyncFlash(n, failed) ==
    [n EXCEPT !.phys = IF failed = {} THEN n.ram ELSE @, !.dirty = {}, !.isDirty = FALSE,
              !.lost = IF failed = {} THEN {} ELSE @ \cup n.dirty]

\* nvs_buffer_sync_physical
SyncPhysical(n, failed) ==
    CASE ~n.isDirty \/ Storage = "None" -> n
      [] n.isDirty /\ Storage = "EEPROM" -> SyncBlocks(n, failed)
      [] n.isDirty /\ Storage = "Flash" -> SyncFlash(n, failed)

\* The power fails while block b is written: blocks before it are written, it
\* may be torn.  A flash is erased first.
Interrupted(n, b) ==
    IF Storage = "Flash" THEN [x \in Blocks |-> Torn]
    ELSE [x \in Blocks |->
             IF x = b THEN Torn
             ELSE IF x \in n.dirty /\ Before(x, b) THEN n.ram[x] ELSE n.phys[x]]

\* nvs_buffer_init reads the whole storage, and tells whether it is usable.
Loaded(n) == Buffer(n.phys)
Usable(n) == Storage # "None" /\ n.ram[Version] = "now"

\* The restored image is written at once, a flash as a whole.  Nobody looks at
\* the result: all flags are cleared.
WriteImage(n, failed) ==
    LET written == CASE Storage = "EEPROM" -> Blocks \ failed
                     [] Storage = "Flash"  -> IF failed = {} THEN Blocks ELSE {}
                     [] Storage = "None"   -> {}
        phys == [b \in Blocks |-> IF b \in written THEN n.ram[b] ELSE n.phys[b]]
    IN [n EXCEPT !.phys = phys, !.dirty = {}, !.isDirty = FALSE,
                 !.lost = {b \in Blocks : n.ram[b] # phys[b]}]

\* What the physical storage lacks is marked, and will be written (a version
\* alone waits for the next block), unless it is lost, as only a block whose
\* write failed is.
TrackedBy(n) ==
    Storage # "None" =>
        /\ \A b \in Blocks \ n.lost : n.ram[b] # n.phys[b] => b \in n.dirty
        /\ n.dirty \ {Version} # {} => n.isDirty
        /\ n.lost # {} => Unreliable # {}
        /\ Storage = "EEPROM" => n.lost \subseteq Unreliable
=============================================================================
