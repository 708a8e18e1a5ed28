---------------------------- MODULE StorageProofs ----------------------------
(***************************************************************************)
(* Proofs about the settings and their storage, in three parts, and about  *)
(* the virtual file system.                                                *)
(*                                                                         *)
(* A handler reaches the buffer through Write, PutVersion, SyncPhysical    *)
(* and WriteImage only; each keeps what the physical storage lacks marked  *)
(* or, when its write failed, counted as lost: the lemmas of the first     *)
(* part.  Every handler is a composition of them, those of the second, up  *)
(* to TrackedAlways.                                                       *)
(*                                                                         *)
(* The third is about contents: a handler either works beside the          *)
(* settings, or sets one, after which they still fit each other, are       *)
(* written, and what is derived from them follows.                         *)
(*                                                                         *)
(* Of the file system: a path leads to one mount, since mounts are one     *)
(* name deep and apart (MountFact); with that every action keeps VfsInv,   *)
(* a lemma each, up to VfsIsSound.                                         *)
(***************************************************************************)
EXTENDS Settings, Vfs, TLAPS, FiniteSetTheorems, SequenceTheorems, WellFoundedInduction

\* A buffer: contents of all blocks, flags of some
IsBuffer(n) ==
    /\ DOMAIN n = {"ram", "phys", "dirty", "isDirty", "lost"}
    /\ DOMAIN n.ram = Blocks /\ DOMAIN n.phys = Blocks
    /\ n.dirty \subseteq Blocks /\ n.lost \subseteq Blocks
    /\ n.isDirty \in BOOLEAN

Good(n) == IsBuffer(n) /\ TrackedBy(n)

-----------------------------------------------------------------------------
(* The buffer *)

\* A write to the RAM copy marks what it changes.
LEMMA WriteGood ==
    ASSUME NEW n, NEW values, Good(n), DOMAIN values \subseteq Blocks
    PROVE  Good(Write(n, values))
<1> DEFINE changed == {b \in DOMAIN values : (n.ram[b] # values[b]) \/ Version \in n.dirty}
           dirty == IF Storage = "None" THEN {} ELSE changed
           ram == Over(values, n.ram)
           isDirty == n.isDirty \/ dirty # {}
           w == Write(n, values)
<1>1. ram = [b \in Blocks |-> IF b \in DOMAIN values THEN values[b] ELSE n.ram[b]]
  BY DEF Over
<1>2. DOMAIN ram = Blocks
  BY <1>1 DEF Good, IsBuffer
<1>3. dirty \subseteq Blocks /\ isDirty \in BOOLEAN
  OBVIOUS
<1>4. w = [n EXCEPT !.ram = ram, !.dirty = n.dirty \cup dirty, !.isDirty = isDirty]
  BY DEF Write
<1> HIDE DEF ram, dirty, w, isDirty
<1>5. /\ DOMAIN w = {"ram", "phys", "dirty", "isDirty", "lost"}
      /\ w.ram = ram /\ w.phys = n.phys /\ w.dirty = n.dirty \cup dirty /\ w.isDirty = isDirty
      /\ w.lost = n.lost
  BY <1>4 DEF Good, IsBuffer
<1>6. IsBuffer(w)
  BY <1>2, <1>3, <1>5 DEF Good, IsBuffer
<1>7. TrackedBy(w)
  <2> SUFFICES ASSUME Storage # "None"
               PROVE  /\ \A b \in Blocks \ w.lost : w.ram[b] # w.phys[b] => b \in w.dirty
                      /\ w.dirty \ {Version} # {} => w.isDirty
    BY <1>5 DEF TrackedBy, Good
  <2>1. ASSUME NEW b \in Blocks \ w.lost, w.ram[b] # w.phys[b] PROVE b \in w.dirty
    BY <1>1, <1>5, <2>1 DEF dirty, Good, IsBuffer, TrackedBy
  <2>2. w.dirty \ {Version} # {} => w.isDirty
    BY <1>5 DEF isDirty, Good, TrackedBy
  <2> QED BY <2>1, <2>2
<1> QED BY <1>6, <1>7 DEF Good, w

\* The forced write of the version marks it.
LEMMA PutVersionGood ==
    ASSUME NEW n, Good(n) PROVE Good(PutVersion(n))
<1> DEFINE w == PutVersion(n)
<1>1. Version \in Blocks
  BY DEF Blocks
<1>2. w = [n EXCEPT !.ram[Version] = "now", !.dirty = n.dirty \cup {Version}]
  BY DEF PutVersion
<1> HIDE DEF w
<1>3. /\ DOMAIN w = {"ram", "phys", "dirty", "isDirty", "lost"}
      /\ w.ram = [n.ram EXCEPT ![Version] = "now"]
      /\ w.phys = n.phys /\ w.dirty = n.dirty \cup {Version} /\ w.isDirty = n.isDirty
      /\ w.lost = n.lost
  BY <1>2 DEF Good, IsBuffer
<1>4. IsBuffer(w)
  BY <1>1, <1>3 DEF Good, IsBuffer
<1>5. TrackedBy(w)
  BY <1>1, <1>3 DEF Good, IsBuffer, TrackedBy
<1> QED BY <1>4, <1>5 DEF Good, w

\* A physical write keeps the marks of the blocks that failed, or loses them.
LEMMA SyncGood ==
    ASSUME NEW n, NEW failed, Good(n), failed \subseteq Unreliable
    PROVE  Good(SyncPhysical(n, failed))
<1>1. CASE ~n.isDirty \/ Storage = "None"
  BY <1>1 DEF SyncPhysical
<1>2. CASE n.isDirty /\ Storage = "EEPROM"
  <2> DEFINE w == SyncBlocks(n, failed)
             written == n.dirty \ failed
             left == (n.dirty \cap failed) \ {Startup(i) : i \in StartupLines}
             phys == [b \in Blocks |-> IF b \in written THEN n.ram[b] ELSE n.phys[b]]
             isDirty == left \ {Version} # {}
             lost == (n.lost \cup n.dirty) \ (written \cup left)
  <2>1. w = [n EXCEPT !.phys = phys, !.dirty = left, !.isDirty = isDirty, !.lost = lost]
    BY DEF SyncBlocks
  <2>2. left \subseteq n.dirty /\ isDirty \in BOOLEAN /\ lost \subseteq n.lost \cup (n.dirty \cap failed)
    OBVIOUS
  <2>3. DOMAIN phys = Blocks /\ \A b \in Blocks \ lost :
           IF b \in written THEN phys[b] = n.ram[b]
           ELSE phys[b] = n.phys[b] /\ (b \in left \/ b \notin n.dirty \cup n.lost)
    OBVIOUS
  <2>4. isDirty = (left \ {Version} # {})
    OBVIOUS
  <2> HIDE DEF w, written, left, phys, isDirty, lost
  <2>5. /\ DOMAIN w = {"ram", "phys", "dirty", "isDirty", "lost"}
        /\ w.ram = n.ram /\ w.phys = phys /\ w.dirty = left /\ w.isDirty = isDirty /\ w.lost = lost
    BY <2>1 DEF Good, IsBuffer
  <2>6. IsBuffer(w)
    BY <2>2, <2>3, <2>5 DEF Good, IsBuffer
  <2>7. TrackedBy(w)
    <3>1. ASSUME NEW b \in Blocks \ w.lost, w.ram[b] # w.phys[b] PROVE b \in w.dirty
      BY <1>2, <2>3, <2>5, <3>1 DEF Good, TrackedBy
    <3>2. w.dirty \ {Version} # {} => w.isDirty
      BY <2>4, <2>5
    <3>3. w.lost \subseteq Unreliable
      BY <1>2, <2>2, <2>5 DEF Good, TrackedBy
    <3> QED BY <3>1, <3>2, <3>3 DEF TrackedBy
  <2>8. SyncPhysical(n, failed) = w
    BY <1>2 DEF SyncPhysical, w
  <2> QED BY <2>6, <2>7, <2>8 DEF Good
<1>3. CASE n.isDirty /\ Storage = "Flash"
  <2> DEFINE w == SyncFlash(n, failed)
             phys == IF failed = {} THEN n.ram ELSE n.phys
             lost == IF failed = {} THEN {} ELSE n.lost \cup n.dirty
  <2>1. w = [n EXCEPT !.phys = phys, !.dirty = {}, !.isDirty = FALSE, !.lost = lost]
    BY DEF SyncFlash
  <2>2. \/ phys = n.ram /\ lost = {}
        \/ phys = n.phys /\ lost = n.lost \cup n.dirty /\ Unreliable # {}
    OBVIOUS
  <2> HIDE DEF w, phys, lost
  <2>3. /\ DOMAIN w = {"ram", "phys", "dirty", "isDirty", "lost"}
        /\ w.ram = n.ram /\ w.phys = phys /\ w.dirty = {} /\ w.isDirty = FALSE /\ w.lost = lost
    BY <2>1 DEF Good, IsBuffer
  <2>4. IsBuffer(w)
    BY <2>2, <2>3 DEF Good, IsBuffer
  <2>5. ASSUME NEW b \in Blocks \ w.lost, w.ram[b] # w.phys[b] PROVE b \in w.dirty
    BY <1>3, <2>2, <2>3, <2>5 DEF Good, TrackedBy
  <2>6. Good(w)
    BY <1>3, <2>2, <2>3, <2>4, <2>5 DEF Good, TrackedBy
  <2>7. SyncPhysical(n, failed) = w
    BY <1>3 DEF SyncPhysical, w
  <2> QED BY <2>6, <2>7
<1>4. n.isDirty \in BOOLEAN
  BY DEF Good, IsBuffer
<1> QED BY <1>1, <1>2, <1>3, <1>4, StorageKind

\* What an image contains
LEMMA ImageFields ==
    ASSUME NEW n, NEW failed, IsBuffer(n)
    PROVE  LET w == WriteImage(n, failed)
           IN /\ IsBuffer(w) /\ w.ram = n.ram /\ w.dirty = {} /\ w.isDirty = FALSE
              /\ w.lost = {b \in Blocks : w.ram[b] # w.phys[b]}
              /\ \A b \in Blocks :
                    \/ w.phys[b] = n.ram[b]
                    \/ w.phys[b] = n.phys[b] /\ (Storage = "EEPROM" => b \in failed)
                                            /\ (Storage = "Flash" => failed # {})
<1> DEFINE written == CASE Storage = "EEPROM" -> Blocks \ failed
                        [] Storage = "Flash"  -> IF failed = {} THEN Blocks ELSE {}
                        [] Storage = "None"   -> {}
           phys == [b \in Blocks |-> IF b \in written THEN n.ram[b] ELSE n.phys[b]]
           lost == {b \in Blocks : n.ram[b] # phys[b]}
           w == WriteImage(n, failed)
<1>1. w = [n EXCEPT !.phys = phys, !.dirty = {}, !.isDirty = FALSE, !.lost = lost]
  BY DEF WriteImage
<1>2. \A b \in Blocks \ written : /\ Storage = "EEPROM" => b \in failed
                                  /\ Storage = "Flash" => failed # {}
  BY StorageKind
<1> HIDE DEF written
<1>3. DOMAIN phys = Blocks /\ \A b \in Blocks :
         phys[b] = IF b \in written THEN n.ram[b] ELSE n.phys[b]
  OBVIOUS
<1> HIDE DEF phys
<1>4. lost \subseteq Blocks /\ lost = {b \in Blocks : n.ram[b] # phys[b]}
  OBVIOUS
<1> HIDE DEF w, lost
<1>5. /\ DOMAIN w = {"ram", "phys", "dirty", "isDirty", "lost"}
      /\ w.ram = n.ram /\ w.phys = phys /\ w.dirty = {} /\ w.isDirty = FALSE /\ w.lost = lost
  BY <1>1 DEF IsBuffer
<1>6. IsBuffer(w)
  BY <1>3, <1>4, <1>5 DEF IsBuffer
<1> QED BY <1>2, <1>3, <1>4, <1>5, <1>6 DEF w

\* An image that fails leaves nothing to write: what it lacks is lost.
LEMMA ImageGood ==
    ASSUME NEW n, NEW failed, Good(n), failed \subseteq Unreliable
    PROVE  Good(WriteImage(n, failed))
<1> DEFINE w == WriteImage(n, failed)
<1>1. /\ IsBuffer(w) /\ w.ram = n.ram /\ w.dirty = {} /\ w.isDirty = FALSE
      /\ w.lost = {b \in Blocks : w.ram[b] # w.phys[b]}
      /\ \A b \in Blocks :
            \/ w.phys[b] = n.ram[b]
            \/ w.phys[b] = n.phys[b] /\ (Storage = "EEPROM" => b \in failed)
                                    /\ (Storage = "Flash" => failed # {})
  BY ImageFields DEF Good
<1> HIDE DEF w
<1>2. Storage = "EEPROM" => w.lost \subseteq Unreliable
  BY <1>1
<1>3. Storage # "None" /\ w.lost # {} => Unreliable # {}
  BY <1>1, StorageKind
<1> QED BY <1>1, <1>2, <1>3 DEF Good, TrackedBy, w

\* A buffer that holds what the storage holds has nothing to write.
LEMMA BufferGood ==
    ASSUME NEW phys, DOMAIN phys = Blocks
    PROVE  LET n == Buffer(phys) IN Good(n) /\ n.ram = phys /\ n.phys = phys
<1> DEFINE n == Buffer(phys)
<1>1. /\ DOMAIN n = {"ram", "phys", "dirty", "isDirty", "lost"}
      /\ n.ram = phys /\ n.phys = phys /\ n.dirty = {} /\ n.isDirty = FALSE /\ n.lost = {}
  BY DEF Buffer
<1> HIDE DEF n
<1>2. Good(n) /\ n.ram = phys /\ n.phys = phys
  BY <1>1 DEF Good, IsBuffer, TrackedBy
<1> QED BY <1>2 DEF n

-----------------------------------------------------------------------------
(* The handlers *)

Fields == {"n", "ok", "live", "plugin", "backup", "soft", "hard", "homed", "travelChanged", "alarm"}

\* A machine with a good buffer
Sound(c) == DOMAIN c = Fields /\ Good(c.n)

\* d is c but for fields other than the buffer.
SameBuffer(c, d) == DOMAIN d = DOMAIN c /\ d.n = c.n

LEMMA SameIsSound ==
    ASSUME NEW c, NEW d, Sound(c), SameBuffer(c, d) PROVE Sound(d)
  BY DEF Sound, SameBuffer

\* Changing a setting does not touch the buffer.
LEMMA SetValueSame ==
    ASSUME NEW c, NEW id, NEW v PROVE SameBuffer(c, SetValue(c, id, v))
<1>1. \A d, x : SameBuffer(d, SetSoftLimits(d, x))
  BY DEF SameBuffer, SetSoftLimits, WithSoftLimits, Refuse
<1>2. \A d, x : SameBuffer(d, SetHomingFeedRate(d, x))
  BY DEF SameBuffer, SetHomingFeedRate, Refuse
<1>3. SameBuffer(c, HomingOff(c))
  <2> DEFINE d == [c EXCEPT !.live.homing = {"enabled"}]
             e == SetSoftLimits(d, FALSE)
  <2>1. SameBuffer(c, d)
    BY DEF SameBuffer
  <2> HIDE DEF d
  <2>2. SameBuffer(d, e)
    BY <1>1
  <2>3. HomingOff(c) = [e EXCEPT !.live.homing = {}, !.live.jog_soft = FALSE]
    BY DEF HomingOff, d
  <2> HIDE DEF e
  <2> QED BY <2>1, <2>2, <2>3 DEF SameBuffer
<1>4. SameBuffer(c, HomingOn(c, v))
  <2> DEFINE fresh == "enabled" \notin c.live.homing \/ "per_axis" \in c.live.homing
             d == [c EXCEPT !.live.two_switches = "two_switches" \in v,
                            !.live.homing = v \ {"two_switches"}]
             e == SetHomingFeedRate(d, d.live.feed_rate["X"])
  <2>1. SameBuffer(c, d)
    BY DEF SameBuffer
  <2>2. HomingOn(c, v) = IF fresh /\ "per_axis" \notin v THEN e ELSE d
    BY DEF HomingOn
  <2> HIDE DEF d, fresh
  <2>3. SameBuffer(d, e)
    BY <1>2
  <2> HIDE DEF e
  <2> QED BY <2>1, <2>2, <2>3 DEF SameBuffer
<1>5. SameBuffer(c, SetHomingEnable(c, v))
  <2> DEFINE d == IF "enabled" \in v THEN HomingOn(c, v) ELSE HomingOff(c)
  <2>1. SameBuffer(c, d)
    BY <1>3, <1>4
  <2> HIDE DEF d
  <2>2. SameBuffer(d, [d EXCEPT !.live.homing = IF "homing_state" \in Caps THEN @
                                               ELSE @ \ {"use_limit_switches"}])
    BY DEF SameBuffer
  <2> QED BY <2>1, <2>2 DEF SameBuffer, SetHomingEnable, d
<1>6. SameBuffer(c, SetMaxTravel(c, v))
  BY DEF SameBuffer, SetMaxTravel, WithSoftLimits
<1>7. SameBuffer(c, SetHardLimits(c, v))
  BY DEF SameBuffer, SetHardLimits, WithHardLimits
<1>8. /\ SameBuffer(c, SetJogSoftLimited(c, v))
      /\ SameBuffer(c, SetMode(c, v))
      /\ SameBuffer(c, SetSpindleInvert(c, v))
      /\ SameBuffer(c, SetParking(c, v))
      /\ SameBuffer(c, SetToolChange(c, v))
      /\ SameBuffer(c, SetAcceleration(c, v))
  BY DEF SameBuffer, SetJogSoftLimited, SetMode, SetSpindleInvert, SetParking, SetToolChange,
         SetAcceleration, Refuse
<1>9. SameBuffer(c, Refuse(c))
  BY DEF SameBuffer, Refuse
<1>10. /\ SameBuffer(c, [c EXCEPT !.live.max_rate = v])
       /\ SameBuffer(c, [c EXCEPT !.live.feed_rate["Y"] = v])
       /\ SameBuffer(c, [c EXCEPT !.live.homing = IF "homing" \in v THEN @ \ {"keep"}
                                                  ELSE @ \cup {"keep"},
                                  !.live.keep_offsets = "offsets" \notin v])
  BY DEF SameBuffer
<1> QED BY <1>1, <1>2, <1>5, <1>6, <1>7, <1>8, <1>9, <1>10 DEF SetValue

\* A handler that writes blocks keeps the machine sound.
LEMMA WritingSound ==
    ASSUME NEW c, NEW d, NEW values, Sound(c), DOMAIN values \subseteq Blocks,
           DOMAIN d = DOMAIN c, d.n = Write(c.n, values)
    PROVE  Sound(d)
  BY WriteGood DEF Sound

LEMMA WriteGlobalSound ==
    ASSUME NEW c, Sound(c) PROVE Sound(WriteGlobal(c))
<1> DEFINE live == Persistent(c.live, c.backup)
           values == One(Global, live)
           d == WriteGlobal(c)
<1>1. DOMAIN values \subseteq Blocks
  BY DEF One, Blocks
<1>2. d = [c EXCEPT !.live = live, !.n = Write(c.n, values)]
  BY DEF WriteGlobal
<1> HIDE DEF values, live, d
<1>3. DOMAIN d = DOMAIN c /\ d.n = Write(c.n, values)
  BY <1>2 DEF Sound, Fields
<1> QED BY <1>1, <1>3, WritingSound DEF d

LEMMA StoredSound ==
    ASSUME NEW c, NEW id, NEW v, Sound(c) PROVE Sound(Stored(c, id, v))
<1> DEFINE b == [c EXCEPT !.ok = TRUE]
           d == SetValue(b, id, v)
<1>1. Sound(b)
  BY DEF Sound, Fields
<1>2. Sound(d)
  BY <1>1, SetValueSame, SameIsSound
<1> HIDE DEF d
<1>3. Stored(c, id, v) = IF d.ok THEN WriteGlobal(d) ELSE d
  BY DEF Stored, d
<1> QED BY <1>2, <1>3, WriteGlobalSound

LEMMA RestorePluginSound ==
    ASSUME NEW c, Sound(c) PROVE Sound(RestorePlugin(c))
<1> DEFINE values == One(Driver, Clear)
           d == RestorePlugin(c)
<1>1. DOMAIN values \subseteq Blocks
  BY DEF One, Blocks
<1>2. d = [c EXCEPT !.plugin = Clear, !.n = Write(c.n, values)]
  BY DEF RestorePlugin
<1> HIDE DEF values, d
<1>3. DOMAIN d = DOMAIN c /\ d.n = Write(c.n, values)
  BY <1>2 DEF Sound, Fields
<1> QED BY <1>1, <1>3, WritingSound DEF d

LEMMA RestoredSound ==
    ASSUME NEW c, NEW what, Sound(c) PROVE Sound(Restored(c, what))
<1> DEFINE forced == [c EXCEPT !.n = PutVersion(c.n)]
           fresh == [forced EXCEPT !.live = Defaults]
           global == IF "defaults" \in what THEN WriteGlobal(fresh) ELSE forced
           cleared == [global EXCEPT !.n = Write(global.n, Cleared(what))]
<1>1. Sound(forced)
  BY PutVersionGood DEF Sound, Fields
<1>2. Sound(fresh)
  BY <1>1 DEF Sound, Fields
<1>3. Sound(global)
  BY <1>1, <1>2, WriteGlobalSound
<1> HIDE DEF forced, fresh, global
<1>4. DOMAIN Cleared(what) \subseteq Blocks
  BY DEF Cleared, Blocks
<1>5. DOMAIN cleared = DOMAIN global /\ cleared.n = Write(global.n, Cleared(what))
  BY <1>3 DEF Sound, Fields
<1> HIDE DEF cleared
<1>6. Sound(cleared)
  BY <1>3, <1>4, <1>5, WritingSound
<1>7. Restored(c, what) = IF "driver_parameters" \in what THEN RestorePlugin(cleared) ELSE cleared
  BY DEF Restored, cleared, global, fresh, forced
<1> QED BY <1>6, <1>7, RestorePluginSound

LEMMA SyncedSound ==
    ASSUME NEW c, NEW failed, Sound(c), failed \subseteq Unreliable
    PROVE  Sound(Synced(c, failed))
<1>1. Good(SyncPhysical(c.n, failed))
  BY SyncGood DEF Sound
<1> QED BY <1>1 DEF Synced, Sound, Fields

LEMMA ReadBlockSound ==
    ASSUME NEW c, NEW b \in Blocks, NEW failed, Sound(c), failed \subseteq Unreliable
    PROVE  Sound(ReadBlock(c, b, failed))
<1> DEFINE values == One(b, Clear)
           d == [c EXCEPT !.n = Write(c.n, values)]
<1>1. DOMAIN values \subseteq Blocks
  BY DEF One
<1>2. DOMAIN d = DOMAIN c /\ d.n = Write(c.n, values)
  BY DEF Sound, Fields
<1> HIDE DEF values
<1>3. Sound(d)
  BY <1>1, <1>2, WritingSound
<1>4. Sound(Synced(Restored(c, {"build_info"}), failed))
  BY RestoredSound, SyncedSound
<1> QED BY <1>3, <1>4 DEF ReadBlock, values

LEMMA ResetSound ==
    ASSUME NEW c, Sound(c) PROVE Sound(Reset(c))
<1> DEFINE d == ReadBlock(c, Coord(540), {})
<1>1. Coord(540) \in Blocks
  BY CoordsAssumption DEF Blocks
<1>2. Sound(d)
  BY <1>1, ReadBlockSound
<1> HIDE DEF d
<1>3. Reset(c) = [d EXCEPT !.alarm = @ \/ HomingRequired(d)]
  BY DEF Reset, d
<1> QED BY <1>2, <1>3 DEF Sound, Fields

\* A start from any contents of the storage
LEMMA StartedSound ==
    ASSUME NEW n, NEW failed, IsBuffer(n), failed \subseteq Unreliable
    PROVE  Sound(Started(n, failed))
<1> DEFINE fresh == Fresh(n)
           loaded == [fresh EXCEPT !.n = Loaded(fresh.n)]
           initial == NvsBufferInit(fresh, failed)
           global == ReadGlobal(initial, failed)
           read == WithHardLimits(WithSoftLimits(global))
           plugin == LoadPlugin(read)
<1>1. Sound(loaded)
  <2>1. DOMAIN fresh = Fields /\ fresh.n = n
    BY DEF Fresh, Fields
  <2>2. Good(Loaded(n))
    BY BufferGood DEF Loaded, IsBuffer
  <2> HIDE DEF fresh
  <2> QED BY <2>1, <2>2 DEF Sound, Fields
<1>2. \A c : Sound(c) => Sound(Synced(Restored(c, Everything), failed))
  BY RestoredSound, SyncedSound
<1>3. Sound(initial)
  <2> DEFINE d == Synced(Restored(loaded, Everything), failed)
  <2> HIDE DEF loaded
  <2>1. Sound(d)
    BY <1>1, <1>2
  <2> HIDE DEF d
  <2>2. Sound([d EXCEPT !.n = WriteImage(d.n, failed)])
    BY <2>1, ImageGood DEF Sound, Fields
  <2>3. initial = IF Usable(loaded.n) THEN loaded ELSE [d EXCEPT !.n = WriteImage(d.n, failed)]
    BY DEF NvsBufferInit, loaded, d
  <2> QED BY <1>1, <2>2, <2>3
<1> HIDE DEF initial
<1>4. Sound(global)
  <2>1. Sound([initial EXCEPT !.live = Sane(initial.n.ram[Global])])
    BY <1>3 DEF Sound, Fields
  <2> QED BY <1>2, <1>3, <2>1 DEF ReadGlobal
<1> HIDE DEF global
<1>5. Sound(read)
  BY <1>4 DEF Sound, Fields, WithHardLimits, WithSoftLimits
<1> HIDE DEF read
<1>6. Sound(plugin)
  <2>1. Sound([read EXCEPT !.plugin = read.n.ram[Driver]])
    BY <1>5 DEF Sound, Fields
  <2> QED BY <1>5, <2>1, RestorePluginSound DEF LoadPlugin
<1> HIDE DEF plugin
<1>7. Sound(SetBuild(plugin))
  <2>1. Sound([plugin EXCEPT !.live.build = "this"])
    BY <1>6 DEF Sound, Fields
  <2> QED BY <1>6, <2>1, WriteGlobalSound DEF SetBuild
<1>8. Sound(Reset(SetBuild(plugin)))
  BY <1>7, ResetSound
<1>9. Coord(920) \in Blocks
  BY CoordsAssumption DEF Blocks
<1>10. Started(n, failed) = ReadBlock(Reset(SetBuild(plugin)), Coord(920), {})
  BY DEF Started, plugin, read, global, initial
<1> QED BY <1>8, <1>9, <1>10, ReadBlockSound

-----------------------------------------------------------------------------
(* The specification *)

\* Nothing that was written is forgotten but by a write that fails where its
\* result is not looked at (nvs_buffer.c): whatever the settings, blocks and
\* parts that are restored, whichever writes fail, on every kind of storage,
\* what the physical storage lacks is marked or lost at every moment, through
\* power failures and restarts; and only unreliable blocks are ever lost.
THEOREM TrackedAlways ==
    ASSUME \A x \in Menus : x.blocks \subseteq Blocks
    PROVE  Spec => []Tracked
<1> DEFINE IInv == Sound(m) /\ menu \in Menus
<1>1. Init => IInv
  <2> SUFFICES ASSUME Init PROVE IInv
    OBVIOUS
  <2>1. PICK phys \in Foreign : m = Fresh(Buffer(phys))
    BY DEF Init
  <2>2. Good(Buffer(phys))
    BY ForeignAssumption, BufferGood
  <2>3. DOMAIN m = Fields /\ m.n = Buffer(phys)
    BY <2>1 DEF Fresh, Fields
  <2> QED BY <2>2, <2>3 DEF Init, Sound
<1>2. IInv /\ [Next]_vars => IInv'
  <2> SUFFICES ASSUME IInv, [Next]_vars PROVE IInv'
    OBVIOUS
  <2>1. menu' \in Menus
    BY DEF Next, vars, Set, SetPlugin, Override, WriteBlock, Read, Restore, Sync, Home, Start,
           End, PowerOff, PowerFail, PowerOn, Step, Off
  <2>2. \A phys : DOMAIN phys = Blocks /\ Off(phys) => Sound(m')
    <3> SUFFICES ASSUME NEW phys, DOMAIN phys = Blocks, Off(phys) PROVE Sound(m')
      OBVIOUS
    <3> DEFINE n == Buffer(phys)
    <3>1. Good(n)
      BY BufferGood
    <3>2. m' = [m EXCEPT !.n = n]
      BY DEF Off
    <3> HIDE DEF n
    <3> QED BY <3>1, <3>2 DEF Sound, Fields
  <2>3. \A n, b : IsBuffer(n) => DOMAIN Interrupted(n, b) = Blocks
    BY DEF Interrupted
  <2>4. CASE Set
    BY <2>4, StoredSound DEF Set, Step
  <2>5. CASE SetPlugin
    <3>1. PICK v \in Values : Step([m EXCEPT !.plugin = v, !.n = Write(@, One(Driver, v))])
      BY <2>5 DEF SetPlugin
    <3> DEFINE values == One(Driver, v)
    <3>2. DOMAIN values \subseteq Blocks
      BY DEF One, Blocks
    <3> HIDE DEF values
    <3>3. DOMAIN m' = DOMAIN m /\ m'.n = Write(m.n, values)
      BY <3>1 DEF Step, Sound, Fields, values
    <3> QED BY <2>1, <3>2, <3>3, WritingSound
  <2>6. CASE Override
    BY <2>6 DEF Override, Step, Sound, Fields
  <2>7. CASE WriteBlock
    <3>1. PICK b \in menu.blocks, v \in Values : Step([m EXCEPT !.n = Write(@, One(b, v))])
      BY <2>7 DEF WriteBlock
    <3> DEFINE values == One(b, v)
    <3>2. DOMAIN values \subseteq Blocks
      BY DEF One
    <3> HIDE DEF values
    <3>3. DOMAIN m' = DOMAIN m /\ m'.n = Write(m.n, values)
      BY <3>1 DEF Step, Sound, Fields, values
    <3> QED BY <2>1, <3>2, <3>3, WritingSound
  <2>8. CASE Read
    BY <2>8, ReadBlockSound DEF Read, Step
  <2>9. CASE Restore
    BY <2>9, RestoredSound, SyncedSound, ResetSound DEF Restore, Step
  <2>10. CASE Sync
    BY <2>10, SyncedSound DEF Sync, Step
  <2>11. CASE Home
    BY <2>11 DEF Home, Step, Sound, Fields
  <2>12. CASE Start
    BY <2>12 DEF Start
  <2>13. CASE End
    BY <2>13 DEF End, Sound, Fields
  <2>14. CASE PowerOff
    BY <2>1, <2>2, <2>14 DEF PowerOff, Sound, Good, IsBuffer
  <2>15. CASE PowerFail
    <3>1. \A what : IsBuffer(Restored(m, what).n)
      BY RestoredSound DEF Sound, Good
    <3>2. IsBuffer(m.n)
      BY DEF Sound, Good
    <3> QED BY <2>1, <2>2, <2>3, <2>15, <3>1, <3>2 DEF PowerFail
  <2>16. CASE PowerOn
    BY <2>16, StartedSound DEF PowerOn, Sound, Good
  <2>17. CASE UNCHANGED vars
    BY <2>17 DEF vars
  <2> QED BY <2>1, <2>4, <2>5, <2>6, <2>7, <2>8, <2>9, <2>10, <2>11, <2>12, <2>13, <2>14, <2>15,
             <2>16, <2>17 DEF Next
<1>3. IInv => Tracked
  BY DEF Sound, Good, Tracked
<1> QED BY <1>1, <1>2, <1>3, PTL DEF Spec

-----------------------------------------------------------------------------
(* What is stored and what is in use.  A write that fails matters no more   *)
(* here: the lemmas of the first part, without the marks.                   *)

Cell(n, b) == {n.ram[b], n.phys[b]}

LEMMA WriteStores ==
    ASSUME NEW n, NEW values, IsBuffer(n), DOMAIN values \subseteq Blocks
    PROVE  LET w == Write(n, values)
           IN /\ IsBuffer(w) /\ w.phys = n.phys
              /\ \A b \in Blocks : w.ram[b] = IF b \in DOMAIN values THEN values[b] ELSE n.ram[b]
<1> DEFINE changed == {b \in DOMAIN values : (n.ram[b] # values[b]) \/ Version \in n.dirty}
           dirty == n.dirty \cup (IF Storage = "None" THEN {} ELSE changed)
           ram == Over(values, n.ram)
           isDirty == n.isDirty \/ (IF Storage = "None" THEN {} ELSE changed) # {}
           w == Write(n, values)
<1>1. ram = [b \in Blocks |-> IF b \in DOMAIN values THEN values[b] ELSE n.ram[b]]
  BY DEF Over
<1>2. dirty \subseteq Blocks /\ n.lost \subseteq Blocks /\ isDirty \in BOOLEAN
  BY DEF IsBuffer
<1>3. w = [n EXCEPT !.ram = ram, !.dirty = dirty, !.isDirty = isDirty]
  BY DEF Write
<1> HIDE DEF ram, dirty, w, isDirty
<1>4. /\ DOMAIN w = {"ram", "phys", "dirty", "isDirty", "lost"}
      /\ w.ram = ram /\ w.phys = n.phys /\ w.dirty = dirty /\ w.isDirty = isDirty
      /\ w.lost = n.lost
  BY <1>3 DEF IsBuffer
<1>5. IsBuffer(w)
  BY <1>1, <1>2, <1>4 DEF IsBuffer
<1>6. \A b \in Blocks : w.ram[b] = IF b \in DOMAIN values THEN values[b] ELSE n.ram[b]
  BY <1>1, <1>4
<1> QED BY <1>4, <1>5, <1>6 DEF w

LEMMA PutVersionStores ==
    ASSUME NEW n, IsBuffer(n)
    PROVE  LET w == PutVersion(n)
           IN IsBuffer(w) /\ w.phys = n.phys /\ \A b \in Blocks \ {Version} : w.ram[b] = n.ram[b]
<1> DEFINE w == PutVersion(n)
<1>1. w = [n EXCEPT !.ram[Version] = "now", !.dirty = n.dirty \cup {Version}]
  BY DEF PutVersion
<1> HIDE DEF w
<1>2. /\ DOMAIN w = {"ram", "phys", "dirty", "isDirty", "lost"}
      /\ w.ram = [n.ram EXCEPT ![Version] = "now"]
      /\ w.phys = n.phys /\ w.dirty = n.dirty \cup {Version} /\ w.isDirty = n.isDirty
      /\ w.lost = n.lost
  BY <1>1 DEF IsBuffer
<1>3. Version \in Blocks
  BY DEF Blocks
<1>4. IsBuffer(w)
  BY <1>2, <1>3 DEF IsBuffer
<1>5. \A b \in Blocks \ {Version} : w.ram[b] = n.ram[b]
  BY <1>2 DEF IsBuffer
<1> QED BY <1>2, <1>4, <1>5 DEF w

\* Whatever fails, a block is as it was or as it is in RAM.
LEMMA SyncStores ==
    ASSUME NEW n, NEW failed, IsBuffer(n)
    PROVE  LET w == SyncPhysical(n, failed)
           IN IsBuffer(w) /\ w.ram = n.ram /\ \A b \in Blocks : w.phys[b] \in Cell(n, b)
<1>1. CASE ~n.isDirty \/ Storage = "None"
  BY <1>1 DEF SyncPhysical, Cell
<1>2. CASE n.isDirty /\ Storage = "EEPROM"
  <2> DEFINE w == SyncBlocks(n, failed)
             written == n.dirty \ failed
             left == (n.dirty \cap failed) \ {Startup(i) : i \in StartupLines}
             phys == [b \in Blocks |-> IF b \in written THEN n.ram[b] ELSE n.phys[b]]
             isDirty == left \ {Version} # {}
             lost == (n.lost \cup n.dirty) \ (written \cup left)
  <2>1. w = [n EXCEPT !.phys = phys, !.dirty = left, !.isDirty = isDirty, !.lost = lost]
    BY DEF SyncBlocks
  <2>2. left \subseteq Blocks /\ lost \subseteq Blocks /\ isDirty \in BOOLEAN
    BY DEF IsBuffer
  <2>3. DOMAIN phys = Blocks /\ \A b \in Blocks : phys[b] \in Cell(n, b)
    BY DEF Cell
  <2> HIDE DEF w, written, left, phys, isDirty, lost
  <2>4. /\ DOMAIN w = {"ram", "phys", "dirty", "isDirty", "lost"}
        /\ w.ram = n.ram /\ w.phys = phys /\ w.dirty = left /\ w.isDirty = isDirty /\ w.lost = lost
    BY <2>1 DEF IsBuffer
  <2>5. IsBuffer(w)
    BY <2>2, <2>3, <2>4 DEF IsBuffer
  <2>6. SyncPhysical(n, failed) = w
    BY <1>2 DEF SyncPhysical, w
  <2> QED BY <2>3, <2>4, <2>5, <2>6
<1>3. CASE n.isDirty /\ Storage = "Flash"
  <2> DEFINE w == SyncFlash(n, failed)
             phys == IF failed = {} THEN n.ram ELSE n.phys
             lost == IF failed = {} THEN {} ELSE n.lost \cup n.dirty
  <2>1. w = [n EXCEPT !.phys = phys, !.dirty = {}, !.isDirty = FALSE, !.lost = lost]
    BY DEF SyncFlash
  <2>2. DOMAIN phys = Blocks /\ lost \subseteq Blocks /\ \A b \in Blocks : phys[b] \in Cell(n, b)
    BY DEF IsBuffer, Cell
  <2> HIDE DEF w, phys, lost
  <2>3. /\ DOMAIN w = {"ram", "phys", "dirty", "isDirty", "lost"}
        /\ w.ram = n.ram /\ w.phys = phys /\ w.dirty = {} /\ w.isDirty = FALSE /\ w.lost = lost
    BY <2>1 DEF IsBuffer
  <2>4. IsBuffer(w)
    BY <2>2, <2>3 DEF IsBuffer
  <2>5. SyncPhysical(n, failed) = w
    BY <1>3 DEF SyncPhysical, w
  <2> QED BY <2>2, <2>3, <2>4, <2>5
<1>4. n.isDirty \in BOOLEAN
  BY DEF IsBuffer
<1> QED BY <1>1, <1>2, <1>3, <1>4, StorageKind

LEMMA ImageStores ==
    ASSUME NEW n, NEW failed, IsBuffer(n)
    PROVE  LET w == WriteImage(n, failed)
           IN IsBuffer(w) /\ w.ram = n.ram /\ \A b \in Blocks : w.phys[b] \in Cell(n, b)
<1> DEFINE w == WriteImage(n, failed)
<1>1. /\ IsBuffer(w) /\ w.ram = n.ram /\ w.dirty = {} /\ w.isDirty = FALSE
      /\ w.lost = {b \in Blocks : w.ram[b] # w.phys[b]}
      /\ \A b \in Blocks :
            \/ w.phys[b] = n.ram[b]
            \/ w.phys[b] = n.phys[b] /\ (Storage = "EEPROM" => b \in failed)
                                    /\ (Storage = "Flash" => failed # {})
  BY ImageFields
<1> HIDE DEF w
<1>2. \A b \in Blocks : w.phys[b] \in Cell(n, b)
  BY <1>1 DEF Cell
<1> QED BY <1>1, <1>2 DEF w

LEMMA LoadedStores ==
    ASSUME NEW n, IsBuffer(n)
    PROVE  IsBuffer(Loaded(n)) /\ Loaded(n).ram = n.phys /\ Loaded(n).phys = n.phys
<1>1. DOMAIN n.phys = Blocks /\ Loaded(n) = Buffer(n.phys)
  BY DEF IsBuffer, Loaded
<1> QED BY <1>1, BufferGood DEF Good

-----------------------------------------------------------------------------
(* The settings *)

\* Settings that fit each other
Agrees(s) ==
    /\ DOMAIN s = DOMAIN Defaults
    /\ s.soft \/ s.jog_soft => "enabled" \in s.homing
    /\ "per_axis" \notin s.homing /\ "enabled" \in s.homing =>
          \A a, b \in Feeds : s.feed_rate[a] = s.feed_rate[b]

Shaped(c) ==
    DOMAIN c = Fields /\ IsBuffer(c.n) /\ DOMAIN c.backup = {"valid", "acceleration"}

\* What is derived from the settings follows them.
Follows(c) == c.soft = SoftLimits(c.live) /\ c.hard = ("enabled" \in c.live.hard)

\* The settings in RAM are those in use.
Saved(c) == Sane(c.n.ram[Global]) = Sane(Persistent(c.live, c.backup))

\* Settings that are stored fit each other.
Holds(n) == \A s \in Cell(n, Global) : s = Torn \/ Agrees(s)

\* d is c but for blocks other than the settings, and what is written of all.
Beside(c, d) ==
    /\ Shaped(d)
    /\ d.live = c.live /\ d.backup = c.backup /\ d.soft = c.soft /\ d.hard = c.hard
    /\ d.n.ram[Global] = c.n.ram[Global] /\ d.n.phys[Global] \in Cell(c.n, Global)

LEMMA BesideKeeps ==
    ASSUME NEW c, NEW d, Beside(c, d)
    PROVE  /\ Agrees(c.live) => Agrees(d.live)
           /\ Follows(c) => Follows(d)
           /\ Saved(c) => Saved(d)
           /\ Holds(c.n) => Holds(d.n)
<1>1. Follows(c) => Follows(d)  BY DEF Beside, Follows
<1>2. Saved(c) => Saved(d)  BY DEF Beside, Saved
<1>3. Holds(c.n) => Holds(d.n)  BY DEF Beside, Holds, Cell
<1> QED BY <1>1, <1>2, <1>3 DEF Beside

LEMMA BesideTransitive ==
    ASSUME NEW c, NEW d, NEW e, Beside(c, d), Beside(d, e)
    PROVE  Beside(c, e)
  BY DEF Beside, Cell

LEMMA SettingsFields ==
    DOMAIN Defaults = {"acceleration", "max_travel", "max_rate", "homing", "two_switches", "feed_rate",
                       "keep_offsets", "soft", "jog_soft", "hard", "mode", "invert", "parking",
                       "tool_change", "fast_pulloff", "build"}
  BY DEF Defaults

LEMMA DefaultsAgree == Agrees(Defaults)
<1>1. /\ Defaults.soft = FALSE /\ Defaults.jog_soft = FALSE
      /\ Defaults.homing = {}
  BY DEF Defaults
<1> QED BY <1>1 DEF Agrees

\* The checks of a start, and the end of an override, change nothing they depend on.
LEMMA SaneAgrees ==
    ASSUME NEW s, Agrees(s) PROVE Agrees(Sane(s))
<1> DEFINE w == Sane(s)
           mode == IF s.mode = "laser" /\ "laser" \notin Caps THEN "standard" ELSE s.mode
           rate == IF s.max_rate > MaxRate THEN MaxRate ELSE s.max_rate
           tool == IF s.tool_change > 4 THEN 3 ELSE s.tool_change
           fast == s.fast_pulloff \/ s.tool_change > 4
<1>1. w = [s EXCEPT !.mode = mode, !.max_rate = rate, !.tool_change = tool, !.fast_pulloff = fast]
  BY DEF Sane
<1> HIDE DEF w, mode, rate, tool, fast
<1>2. /\ DOMAIN w = DOMAIN s /\ w.soft = s.soft /\ w.jog_soft = s.jog_soft
      /\ w.homing = s.homing /\ w.feed_rate = s.feed_rate
  BY <1>1, SettingsFields DEF Agrees
<1> QED BY <1>2 DEF Agrees, w

LEMMA PersistentAgrees ==
    ASSUME NEW s, NEW backup, Agrees(s) PROVE Agrees(Persistent(s, backup))
<1> DEFINE w == Persistent(s, backup)
           a == IF backup.valid THEN backup.acceleration ELSE s.acceleration
<1>1. w = [s EXCEPT !.acceleration = a]
  BY DEF Persistent
<1> HIDE DEF w, a
<1>2. /\ DOMAIN w = DOMAIN s /\ w.soft = s.soft /\ w.jog_soft = s.jog_soft
      /\ w.homing = s.homing /\ w.feed_rate = s.feed_rate
  BY <1>1, SettingsFields DEF Agrees
<1> QED BY <1>2 DEF Agrees, w

\* A second time the end of an override and the checks of a start change nothing more.
LEMMA PersistentTwice ==
    ASSUME NEW s, Agrees(s), NEW backup
    PROVE  Persistent(Persistent(s, backup), backup) = Persistent(s, backup)
<1> DEFINE a == IF backup.valid THEN backup.acceleration ELSE s.acceleration
           w == [s EXCEPT !.acceleration = a]
           b == IF backup.valid THEN backup.acceleration ELSE w.acceleration
<1>1. Persistent(s, backup) = w /\ Persistent(w, backup) = [w EXCEPT !.acceleration = b]
  BY DEF Persistent
<1>2. b = a
  BY SettingsFields DEF Agrees
<1> HIDE DEF a, b
<1>3. [w EXCEPT !.acceleration = a] = w
  OBVIOUS
<1> QED BY <1>1, <1>2, <1>3

\* The fields that Sane mends, one by one
MendedMode(s) == IF s.mode = "laser" /\ "laser" \notin Caps THEN "standard" ELSE s.mode
MendedRate(s) == IF s.max_rate > MaxRate THEN MaxRate ELSE s.max_rate
MendedChange(s) == IF s.tool_change > 4 THEN 3 ELSE s.tool_change
FastPulloff(s) == s.fast_pulloff \/ s.tool_change > 4
Mend(s, mode, rate, change, fast) ==
    [s EXCEPT !.mode = mode, !.max_rate = rate, !.tool_change = change, !.fast_pulloff = fast]

LEMMA SaneMends ==
    ASSUME NEW s
    PROVE  Sane(s) = Mend(s, MendedMode(s), MendedRate(s), MendedChange(s), FastPulloff(s))
  BY DEF Sane, Mend, MendedMode, MendedRate, MendedChange, FastPulloff

LEMMA MendFields ==
    ASSUME NEW s, Agrees(s), NEW mode, NEW rate, NEW change, NEW fast
    PROVE  LET w == Mend(s, mode, rate, change, fast)
           IN /\ DOMAIN w = DOMAIN s
              /\ w.mode = mode /\ w.max_rate = rate /\ w.tool_change = change /\ w.fast_pulloff = fast
              /\ w.acceleration = s.acceleration
              /\ Mend(w, mode, rate, change, fast) = w
  BY SettingsFields DEF Mend, Agrees

LEMMA MendedTwice ==
    ASSUME NEW s, NEW w, MaxRate \in Int,
           w.mode = MendedMode(s), w.max_rate = MendedRate(s), w.tool_change = MendedChange(s),
           w.fast_pulloff = FastPulloff(s)
    PROVE  /\ MendedMode(w) = MendedMode(s) /\ MendedRate(w) = MendedRate(s)
           /\ MendedChange(w) = MendedChange(s) /\ FastPulloff(w) = FastPulloff(s)
<1>1. MendedMode(w) = MendedMode(s) /\ MendedRate(w) = MendedRate(s)
  BY DEF MendedMode, MendedRate
<1>2. MendedChange(w) = MendedChange(s) /\ ~(MendedChange(s) > 4)
  BY DEF MendedChange
<1>3. FastPulloff(w) = (w.fast_pulloff \/ w.tool_change > 4)
  BY DEF FastPulloff
<1>4. FastPulloff(s) \in BOOLEAN
  BY DEF FastPulloff
<1> QED BY <1>1, <1>2, <1>3, <1>4

LEMMA SaneTwice ==
    ASSUME NEW s, Agrees(s), NEW backup, MaxRate \in Int
    PROVE  /\ Sane(Sane(s)) = Sane(s)
           /\ Sane(Persistent(Sane(s), backup)) = Sane(Persistent(s, backup))
           /\ ~backup.valid => Persistent(Sane(s), backup) = Sane(s)
<1> DEFINE mode == MendedMode(s)
           rate == MendedRate(s)
           change == MendedChange(s)
           fast == FastPulloff(s)
           w == Mend(s, mode, rate, change, fast)
           a == IF backup.valid THEN backup.acceleration ELSE s.acceleration
           x == [w EXCEPT !.acceleration = a]
           y == [s EXCEPT !.acceleration = a]
<1>1. Sane(s) = w  BY SaneMends
<1>2. /\ DOMAIN w = DOMAIN s
      /\ w.mode = mode /\ w.max_rate = rate /\ w.tool_change = change /\ w.fast_pulloff = fast
      /\ w.acceleration = s.acceleration
      /\ Mend(w, mode, rate, change, fast) = w
  BY MendFields
<1>3. MendedMode(w) = mode /\ MendedRate(w) = rate /\ MendedChange(w) = change /\ FastPulloff(w) = fast
  <2> HIDE DEF w
  <2> QED BY <1>2, MendedTwice
<1>4. Sane(w) = w
  BY <1>2, <1>3, SaneMends
<1>5. Persistent(w, backup) = x
  BY <1>2 DEF Persistent
<1>6. Persistent(s, backup) = y
  BY DEF Persistent
<1>7. ~backup.valid => x = w
  <2>1. ~backup.valid => a = w.acceleration
    BY <1>2
  <2> HIDE DEF a
  <2>2. [w EXCEPT !.acceleration = w.acceleration] = w
    BY DEF Mend
  <2> QED BY <2>1, <2>2
<1>8. Sane(x) = Sane(y)
  <2> HIDE DEF mode, rate, change, fast, a
  <2>1. Agrees(y)
    BY <1>6, PersistentAgrees
  <2>2. /\ y.mode = s.mode /\ y.max_rate = s.max_rate /\ y.tool_change = s.tool_change
        /\ y.fast_pulloff = s.fast_pulloff
        /\ x.mode = w.mode /\ x.max_rate = w.max_rate /\ x.tool_change = w.tool_change
        /\ x.fast_pulloff = w.fast_pulloff
    OBVIOUS
  <2>3. MendedMode(y) = mode /\ MendedRate(y) = rate /\ MendedChange(y) = change /\ FastPulloff(y) = fast
    BY <2>2 DEF MendedMode, MendedRate, MendedChange, FastPulloff, mode, rate, change, fast
  <2>4. MendedMode(x) = MendedMode(w) /\ MendedRate(x) = MendedRate(w)
        /\ MendedChange(x) = MendedChange(w) /\ FastPulloff(x) = FastPulloff(w)
    BY <2>2 DEF MendedMode, MendedRate, MendedChange, FastPulloff
  <2>5. Sane(x) = Mend(x, mode, rate, change, fast) /\ Sane(y) = Mend(y, mode, rate, change, fast)
    BY <1>3, <2>3, <2>4, SaneMends
  <2>6. Mend(x, mode, rate, change, fast) = Mend(y, mode, rate, change, fast)
    BY SettingsFields DEF Mend, Agrees
  <2> QED BY <2>5, <2>6
<1> QED BY <1>1, <1>4, <1>5, <1>6, <1>7, <1>8

\* A setter gives settings that fit each other,
Fits(c, d) ==
    /\ SameBuffer(c, d) /\ DOMAIN d.backup = DOMAIN c.backup
    /\ Agrees(d.live)
    /\ Follows(c) => Follows(d)

\* and leaves them alone when it refuses.
Sets(c, d) ==
    /\ Fits(c, d)
    /\ d.ok = TRUE \/ (d.ok = FALSE /\ d.live = c.live /\ d.backup = c.backup)

\* PWM is inverted by drivers that can: one that cannot refuses the value and keeps half of it.
InvertsFit ==
    "pwm_invert" \in Caps \/
    \A x \in Menus : \A s \in x.settings : s[1] = "spindle_invert" => "pwm" \notin s[2]

LEMMA RefuseSets ==
    ASSUME NEW c, Shaped(c), Agrees(c.live) PROVE Sets(c, Refuse(c))
  BY DEF Sets, Fits, SameBuffer, Refuse, Shaped, Fields, Follows

LEMMA OtherSets ==
    ASSUME NEW c, Shaped(c), Agrees(c.live), c.ok = TRUE, NEW s,
           DOMAIN s = DOMAIN c.live,
           \A f \in {"soft", "jog_soft", "homing", "feed_rate", "hard", "max_travel"} : s[f] = c.live[f]
    PROVE  Sets(c, [c EXCEPT !.live = s])
<1> DEFINE d == [c EXCEPT !.live = s]
<1>1. d.live = s /\ SameBuffer(c, d) /\ d.backup = c.backup /\ d.soft = c.soft /\ d.hard = c.hard /\ d.ok = c.ok
  BY DEF SameBuffer, Shaped, Fields
<1> HIDE DEF d
<1>2. /\ s.soft = c.live.soft /\ s.jog_soft = c.live.jog_soft /\ s.homing = c.live.homing
      /\ s.feed_rate = c.live.feed_rate /\ s.hard = c.live.hard /\ s.max_travel = c.live.max_travel
  OBVIOUS
<1>3. Agrees(s)
  BY <1>2 DEF Agrees
<1>4. Follows(c) => Follows(d)
  BY <1>1, <1>2 DEF Follows, SoftLimits
<1> QED BY <1>1, <1>3, <1>4 DEF Sets, Fits, d

LEMMA SetSoftLimitsSets ==
    ASSUME NEW c, Shaped(c), Agrees(c.live), c.ok = TRUE, NEW v
    PROVE  Sets(c, SetSoftLimits(c, v))
<1>1. CASE v /\ "enabled" \notin c.live.homing
  BY <1>1, RefuseSets DEF SetSoftLimits
<1>2. CASE ~(v /\ "enabled" \notin c.live.homing)
  <2> DEFINE l == [c.live EXCEPT !.soft = v]
             k == [c EXCEPT !.live = l]
             soft == SoftLimits(l)
             d == [k EXCEPT !.soft = soft]
  <2>1. SetSoftLimits(c, v) = d
    BY <1>2 DEF SetSoftLimits, WithSoftLimits
  <2>2. /\ DOMAIN l = DOMAIN c.live /\ l.jog_soft = c.live.jog_soft /\ l.homing = c.live.homing
        /\ l.feed_rate = c.live.feed_rate /\ l.hard = c.live.hard
        /\ l.soft = v
    BY SettingsFields DEF Agrees
  <2> HIDE DEF l
  <2>3. Agrees(l)
    BY <1>2, <2>2 DEF Agrees
  <2> HIDE DEF soft
  <2>4. SameBuffer(c, d) /\ d.live = l /\ d.backup = c.backup /\ d.soft = soft /\ d.hard = c.hard /\ d.ok = c.ok
    BY DEF SameBuffer, Shaped, Fields
  <2> HIDE DEF d, k
  <2>5. Follows(c) => Follows(d)
    BY <2>2, <2>4 DEF Follows, soft
  <2> QED BY <2>1, <2>3, <2>4, <2>5 DEF Sets, Fits
<1> QED BY <1>1, <1>2

LEMMA SetJogSoftSets ==
    ASSUME NEW c, Shaped(c), Agrees(c.live), c.ok = TRUE, NEW v
    PROVE  Sets(c, SetJogSoftLimited(c, v))
<1>1. CASE v /\ "enabled" \notin c.live.homing
  BY <1>1, RefuseSets DEF SetJogSoftLimited
<1>2. CASE ~(v /\ "enabled" \notin c.live.homing)
  <2> DEFINE l == [c.live EXCEPT !.jog_soft = v]
             d == [c EXCEPT !.live = l]
  <2>1. SetJogSoftLimited(c, v) = d
    BY <1>2 DEF SetJogSoftLimited
  <2>2. /\ DOMAIN l = DOMAIN c.live /\ l.soft = c.live.soft /\ l.homing = c.live.homing
        /\ l.feed_rate = c.live.feed_rate /\ l.hard = c.live.hard /\ l.max_travel = c.live.max_travel
        /\ l.jog_soft = v
    BY SettingsFields DEF Agrees
  <2> HIDE DEF l
  <2>3. Agrees(l)
    BY <1>2, <2>2 DEF Agrees
  <2>4. SameBuffer(c, d) /\ d.live = l /\ d.backup = c.backup /\ d.soft = c.soft /\ d.hard = c.hard /\ d.ok = c.ok
    BY DEF SameBuffer, Shaped, Fields
  <2> HIDE DEF d
  <2>5. Follows(c) => Follows(d)
    BY <2>2, <2>4 DEF Follows, SoftLimits
  <2> QED BY <2>1, <2>3, <2>4, <2>5 DEF Sets, Fits
<1> QED BY <1>1, <1>2

\* The rates of all axes are set together, unless each has its own.
LEMMA SetFeedRateSets ==
    ASSUME NEW c, Shaped(c), Agrees(c.live), c.ok = TRUE, NEW v
    PROVE  Sets(c, SetHomingFeedRate(c, v))
<1>1. CASE "per_axis" \in c.live.homing
  BY <1>1, RefuseSets DEF SetHomingFeedRate
<1>2. CASE "per_axis" \notin c.live.homing
  <2> DEFINE r == [a \in Feeds |-> v]
             l == [c.live EXCEPT !.feed_rate = r]
             d == [c EXCEPT !.live = l]
  <2>1. SetHomingFeedRate(c, v) = d
    BY <1>2 DEF SetHomingFeedRate
  <2>2. \A a, b \in Feeds : r[a] = r[b]
    OBVIOUS
  <2> HIDE DEF r
  <2>3. /\ DOMAIN l = DOMAIN c.live /\ l.soft = c.live.soft /\ l.jog_soft = c.live.jog_soft
        /\ l.homing = c.live.homing /\ l.hard = c.live.hard /\ l.max_travel = c.live.max_travel
        /\ l.feed_rate = r
    BY SettingsFields DEF Agrees
  <2> HIDE DEF l
  <2>4. Agrees(l)
    BY <2>2, <2>3 DEF Agrees
  <2>5. SameBuffer(c, d) /\ d.live = l /\ d.backup = c.backup /\ d.soft = c.soft /\ d.hard = c.hard /\ d.ok = c.ok
    BY DEF SameBuffer, Shaped, Fields
  <2> HIDE DEF d
  <2>6. Follows(c) => Follows(d)
    BY <2>3, <2>5 DEF Follows, SoftLimits
  <2> QED BY <2>1, <2>4, <2>5, <2>6 DEF Sets, Fits
<1> QED BY <1>1, <1>2

\* One axis: only when each has its own.
LEMMA SetAxisFeedSets ==
    ASSUME NEW c, Shaped(c), Agrees(c.live), c.ok = TRUE, NEW v, "per_axis" \in c.live.homing
    PROVE  Sets(c, [c EXCEPT !.live.feed_rate["Y"] = v])
<1> DEFINE r == [c.live.feed_rate EXCEPT !["Y"] = v]
           l == [c.live EXCEPT !.feed_rate = r]
           d == [c EXCEPT !.live = l]
<1>1. [c EXCEPT !.live.feed_rate["Y"] = v] = d
  OBVIOUS
<1> HIDE DEF r
<1>2. /\ DOMAIN l = DOMAIN c.live /\ l.soft = c.live.soft /\ l.jog_soft = c.live.jog_soft
      /\ l.homing = c.live.homing /\ l.hard = c.live.hard /\ l.max_travel = c.live.max_travel
  BY SettingsFields DEF Agrees
<1> HIDE DEF l
<1>3. Agrees(l)
  BY <1>2 DEF Agrees
<1>4. SameBuffer(c, d) /\ d.live = l /\ d.backup = c.backup /\ d.soft = c.soft /\ d.hard = c.hard /\ d.ok = c.ok
  BY DEF SameBuffer, Shaped, Fields
<1> HIDE DEF d
<1>5. Follows(c) => Follows(d)
  BY <1>2, <1>4 DEF Follows, SoftLimits
<1> QED BY <1>1, <1>3, <1>4, <1>5 DEF Sets, Fits

\* Turning homing off turns off what needs it ...
LEMMA HomingOffSets ==
    ASSUME NEW c, Shaped(c), Agrees(c.live), c.ok = TRUE
    PROVE  Sets(c, HomingOff(c)) /\ HomingOff(c).ok = TRUE
<1> DEFINE l1 == [c.live EXCEPT !.homing = {"enabled"}]
           l2 == [l1 EXCEPT !.soft = FALSE]
           k == [[c EXCEPT !.live = l1] EXCEPT !.live = l2]
           soft == SoftLimits(l2)
           l == [l2 EXCEPT !.homing = {}, !.jog_soft = FALSE]
           d == [[k EXCEPT !.soft = soft] EXCEPT !.live = l]
<1>1. HomingOff(c) = [[k EXCEPT !.soft = soft] EXCEPT !.live.homing = {}, !.live.jog_soft = FALSE]
  BY DEF HomingOff, SetSoftLimits, WithSoftLimits
<1> HIDE DEF soft
<1>2. k.live = l2 /\ DOMAIN k = Fields
  BY DEF Shaped, Fields
<1>3. HomingOff(c) = d
  <2> HIDE DEF l2, k
  <2> QED BY <1>1, <1>2 DEF Fields
<1>4. /\ DOMAIN l = DOMAIN c.live /\ l.soft = FALSE /\ l.jog_soft = FALSE /\ l.homing = {}
      /\ l.hard = c.live.hard /\ l2.soft = FALSE
  BY SettingsFields DEF Agrees
<1> HIDE DEF l, l1, l2
<1>5. SameBuffer(c, d) /\ d.live = l /\ d.backup = c.backup /\ d.soft = soft /\ d.hard = c.hard /\ d.ok = c.ok
  BY DEF SameBuffer, Shaped, Fields
<1> HIDE DEF d, k
<1>6. Agrees(l)
  BY <1>4 DEF Agrees
<1>7. Follows(c) => Follows(d)
  BY <1>4, <1>5 DEF Follows, SoftLimits, soft
<1> QED BY <1>3, <1>5, <1>6, <1>7 DEF Sets, Fits

\* ... and turning it on gives all axes the same rate, if they do not have their own.
LEMMA HomingOnSets ==
    ASSUME NEW c, Shaped(c), Agrees(c.live), c.ok = TRUE, NEW flags, "enabled" \in flags
    PROVE  Sets(c, HomingOn(c, flags)) /\ HomingOn(c, flags).ok = TRUE
<1> DEFINE fresh == "enabled" \notin c.live.homing \/ "per_axis" \in c.live.homing
           two == "two_switches" \in flags
           homing == flags \ {"two_switches"}
           l == [c.live EXCEPT !.two_switches = two, !.homing = homing]
           d == [c EXCEPT !.live = l]
           rate == d.live.feed_rate["X"]
           r == [a \in Feeds |-> rate]
           k == [l EXCEPT !.feed_rate = r]
           e == [d EXCEPT !.live = k]
<1>1. HomingOn(c, flags) = IF fresh /\ "per_axis" \notin flags THEN SetHomingFeedRate(d, rate) ELSE d
  <2> DEFINE h == [c EXCEPT !.live.two_switches = two, !.live.homing = homing]
  <2>1. HomingOn(c, flags) = IF fresh /\ "per_axis" \notin flags
                             THEN SetHomingFeedRate(h, h.live.feed_rate["X"]) ELSE h
    BY Zenon DEF HomingOn
  <2>2. h = d
    <3> HIDE DEF two, homing
    <3> QED BY DEF Shaped, Fields
  <2> HIDE DEF h, d
  <2> QED BY <2>1, <2>2
<1>2. "enabled" \in homing /\ ("per_axis" \in homing <=> "per_axis" \in flags)
  OBVIOUS
<1> HIDE DEF two, homing
<1>3. /\ DOMAIN l = DOMAIN c.live /\ l.soft = c.live.soft /\ l.jog_soft = c.live.jog_soft
      /\ l.homing = homing /\ l.feed_rate = c.live.feed_rate /\ l.hard = c.live.hard
      /\ l.max_travel = c.live.max_travel
  BY SettingsFields DEF Agrees
<1> HIDE DEF l
<1>4. SameBuffer(c, d) /\ d.live = l /\ d.backup = c.backup /\ d.soft = c.soft /\ d.hard = c.hard /\ d.ok = c.ok
  BY DEF SameBuffer, Shaped, Fields
<1>5. Follows(c) => Follows(d)
  <2> HIDE DEF d
  <2> QED BY <1>3, <1>4 DEF Follows, SoftLimits
<1>6. CASE ~(fresh /\ "per_axis" \notin flags)
  <2>1. Agrees(l)
    BY <1>2, <1>3, <1>6 DEF Agrees
  <2> QED BY <1>1, <1>4, <1>5, <1>6, <2>1 DEF Sets, Fits
<1>7. CASE fresh /\ "per_axis" \notin flags
  <2>1. SetHomingFeedRate(d, rate) = e
    BY <1>2, <1>3, <1>4, <1>7 DEF SetHomingFeedRate
  <2>2. \A a, b \in Feeds : r[a] = r[b]
    OBVIOUS
  <2> HIDE DEF r, rate
  <2>3. /\ DOMAIN k = DOMAIN l /\ k.soft = l.soft /\ k.jog_soft = l.jog_soft
        /\ k.homing = homing /\ k.feed_rate = r /\ k.hard = l.hard /\ k.max_travel = l.max_travel
    BY <1>3, SettingsFields DEF Agrees
  <2> HIDE DEF k
  <2>4. Agrees(k)
    BY <1>2, <1>3, <2>2, <2>3 DEF Agrees
  <2>5. DOMAIN d = DOMAIN c
    BY DEF Shaped
  <2> HIDE DEF d
  <2>6. SameBuffer(c, e) /\ e.live = k /\ e.backup = c.backup /\ e.soft = c.soft /\ e.hard = c.hard /\ e.ok = c.ok
    BY <1>4, <2>5 DEF SameBuffer, Shaped, Fields
  <2> HIDE DEF e
  <2>7. Follows(c) => Follows(e)
    BY <1>3, <2>3, <2>6 DEF Follows, SoftLimits
  <2> QED BY <1>1, <1>7, <2>1, <2>4, <2>6, <2>7 DEF Sets, Fits
<1> QED BY <1>6, <1>7

LEMMA SetHomingSets ==
    ASSUME NEW c, Shaped(c), Agrees(c.live), c.ok = TRUE, NEW flags
    PROVE  Sets(c, SetHomingEnable(c, flags))
<1> DEFINE d == IF "enabled" \in flags THEN HomingOn(c, flags) ELSE HomingOff(c)
           homing == IF "homing_state" \in Caps THEN d.live.homing ELSE d.live.homing \ {"use_limit_switches"}
           l == [d.live EXCEPT !.homing = homing]
           e == [d EXCEPT !.live = l]
<1>1. SetHomingEnable(c, flags) = e
  BY DEF SetHomingEnable
<1>2. Sets(c, d) /\ d.ok = TRUE
  BY HomingOnSets, HomingOffSets
<1> HIDE DEF d
<1>3. \A x \in {"enabled", "per_axis"} : x \in homing <=> x \in d.live.homing
  OBVIOUS
<1> HIDE DEF homing
<1>4. /\ DOMAIN l = DOMAIN d.live /\ l.soft = d.live.soft /\ l.jog_soft = d.live.jog_soft
      /\ l.homing = homing /\ l.feed_rate = d.live.feed_rate /\ l.hard = d.live.hard
      /\ l.max_travel = d.live.max_travel
  BY <1>2, SettingsFields DEF Sets, Fits, Agrees
<1> HIDE DEF l
<1>5. Agrees(l)
  BY <1>2, <1>3, <1>4 DEF Sets, Fits, Agrees
<1>6. DOMAIN d = Fields
  BY <1>2 DEF Sets, Fits, SameBuffer, Shaped
<1>7. /\ SameBuffer(d, e) /\ e.live = l /\ e.backup = d.backup /\ e.soft = d.soft /\ e.hard = d.hard
      /\ e.ok = d.ok
  BY <1>6 DEF SameBuffer, Fields
<1> HIDE DEF e
<1>8. Follows(d) => Follows(e)
  BY <1>4, <1>7 DEF Follows, SoftLimits
<1> QED BY <1>1, <1>2, <1>5, <1>7, <1>8 DEF Sets, Fits, SameBuffer

LEMMA SetMaxTravelSets ==
    ASSUME NEW c, Shaped(c), Agrees(c.live), c.ok = TRUE, NEW v
    PROVE  Sets(c, SetMaxTravel(c, v))
<1> DEFINE changed == c.travelChanged \/ c.live.max_travel # v
           homed == c.homed /\ c.live.max_travel = v
           l == [c.live EXCEPT !.max_travel = v]
           k == [c EXCEPT !.live = l, !.travelChanged = changed, !.homed = homed]
           soft == SoftLimits(k.live)
           d == [k EXCEPT !.soft = soft]
<1>1. SetMaxTravel(c, v) = d
  BY Zenon DEF SetMaxTravel, WithSoftLimits
<1>2. /\ DOMAIN l = DOMAIN c.live /\ l.soft = c.live.soft /\ l.jog_soft = c.live.jog_soft
      /\ l.homing = c.live.homing /\ l.feed_rate = c.live.feed_rate /\ l.hard = c.live.hard
  BY SettingsFields DEF Agrees
<1> HIDE DEF l, changed, homed
<1>3. Agrees(l)
  BY <1>2 DEF Agrees
<1>4. k.live = l
  BY DEF Shaped, Fields
<1> HIDE DEF soft
<1>5. SameBuffer(c, d) /\ d.live = l /\ d.backup = c.backup /\ d.soft = soft /\ d.hard = c.hard /\ d.ok = c.ok
  BY DEF SameBuffer, Shaped, Fields
<1> HIDE DEF d, k
<1>6. Follows(c) => Follows(d)
  BY <1>2, <1>4, <1>5 DEF Follows, soft
<1> QED BY <1>1, <1>3, <1>5, <1>6 DEF Sets, Fits

LEMMA SetHardLimitsSets ==
    ASSUME NEW c, Shaped(c), Agrees(c.live), c.ok = TRUE, NEW flags
    PROVE  Sets(c, SetHardLimits(c, flags))
<1> DEFINE flag == IF "enabled" \in flags THEN flags ELSE {}
           l == [c.live EXCEPT !.hard = flag]
           k == [c EXCEPT !.live = l]
           hard == "enabled" \in k.live.hard
           d == [k EXCEPT !.hard = hard]
<1>1. SetHardLimits(c, flags) = d
  BY DEF SetHardLimits, WithHardLimits
<1> HIDE DEF flag
<1>2. /\ DOMAIN l = DOMAIN c.live /\ l.soft = c.live.soft /\ l.jog_soft = c.live.jog_soft
      /\ l.homing = c.live.homing /\ l.feed_rate = c.live.feed_rate
      /\ l.max_travel = c.live.max_travel
  BY SettingsFields DEF Agrees
<1> HIDE DEF l
<1>3. Agrees(l)
  BY <1>2 DEF Agrees
<1>4. k.live = l
  BY DEF Shaped, Fields
<1> HIDE DEF hard
<1>5. SameBuffer(c, d) /\ d.live = l /\ d.backup = c.backup /\ d.soft = c.soft /\ d.hard = hard /\ d.ok = c.ok
  BY DEF SameBuffer, Shaped, Fields
<1> HIDE DEF d, k
<1>6. Follows(c) => Follows(d)
  BY <1>2, <1>4, <1>5 DEF Follows, SoftLimits, hard
<1> QED BY <1>1, <1>3, <1>5, <1>6 DEF Sets, Fits

LEMMA SetAccelerationSets ==
    ASSUME NEW c, Shaped(c), Agrees(c.live), c.ok = TRUE, NEW v
    PROVE  Sets(c, SetAcceleration(c, v))
<1> DEFINE l == [c.live EXCEPT !.acceleration = v]
           b == [c.backup EXCEPT !.acceleration = v]
           d == [c EXCEPT !.live = l, !.backup = b]
<1>1. SetAcceleration(c, v) = d
  BY DEF SetAcceleration
<1>2. /\ DOMAIN l = DOMAIN c.live /\ l.soft = c.live.soft /\ l.jog_soft = c.live.jog_soft
      /\ l.homing = c.live.homing /\ l.feed_rate = c.live.feed_rate /\ l.hard = c.live.hard
      /\ l.max_travel = c.live.max_travel
  BY SettingsFields DEF Agrees
<1>3. DOMAIN b = DOMAIN c.backup
  OBVIOUS
<1> HIDE DEF l, b
<1>4. Agrees(l)
  BY <1>2 DEF Agrees
<1>5. SameBuffer(c, d) /\ d.live = l /\ d.backup = b /\ d.soft = c.soft /\ d.hard = c.hard /\ d.ok = c.ok
  BY DEF SameBuffer, Shaped, Fields
<1> HIDE DEF d
<1>6. Follows(c) => Follows(d)
  BY <1>2, <1>5 DEF Follows, SoftLimits
<1> QED BY <1>1, <1>3, <1>4, <1>5, <1>6 DEF Sets, Fits

\* The settings nothing depends on
LEMMA PlainSets ==
    ASSUME NEW c, Shaped(c), Agrees(c.live), c.ok = TRUE, NEW v
    PROVE  /\ Sets(c, SetMode(c, v)) /\ Sets(c, SetParking(c, v)) /\ Sets(c, SetToolChange(c, v))
           /\ Sets(c, [c EXCEPT !.live.max_rate = v])
           /\ "pwm_invert" \in Caps \/ "pwm" \notin v => Sets(c, SetSpindleInvert(c, v))
<1>1. \A x : Sets(c, [c EXCEPT !.live.mode = x])
  <2> SUFFICES ASSUME NEW x PROVE Sets(c, [c EXCEPT !.live.mode = x])
    OBVIOUS
  <2> DEFINE s == [c.live EXCEPT !.mode = x]
  <2>1. /\ DOMAIN s = DOMAIN c.live
        /\ \A f \in {"soft", "jog_soft", "homing", "feed_rate", "hard", "max_travel"} : s[f] = c.live[f]
    BY SettingsFields DEF Agrees
  <2> HIDE DEF s
  <2>2. Sets(c, [c EXCEPT !.live = s])
    BY <2>1, OtherSets
  <2> QED BY <2>2 DEF s
<1>2. \A x : Sets(c, [c EXCEPT !.live.parking = x])
  <2> SUFFICES ASSUME NEW x PROVE Sets(c, [c EXCEPT !.live.parking = x])
    OBVIOUS
  <2> DEFINE s == [c.live EXCEPT !.parking = x]
  <2>1. /\ DOMAIN s = DOMAIN c.live
        /\ \A f \in {"soft", "jog_soft", "homing", "feed_rate", "hard", "max_travel"} : s[f] = c.live[f]
    BY SettingsFields DEF Agrees
  <2> HIDE DEF s
  <2>2. Sets(c, [c EXCEPT !.live = s])
    BY <2>1, OtherSets
  <2> QED BY <2>2 DEF s
<1>3. \A x : Sets(c, [c EXCEPT !.live.tool_change = x])
  <2> SUFFICES ASSUME NEW x PROVE Sets(c, [c EXCEPT !.live.tool_change = x])
    OBVIOUS
  <2> DEFINE s == [c.live EXCEPT !.tool_change = x]
  <2>1. /\ DOMAIN s = DOMAIN c.live
        /\ \A f \in {"soft", "jog_soft", "homing", "feed_rate", "hard", "max_travel"} : s[f] = c.live[f]
    BY SettingsFields DEF Agrees
  <2> HIDE DEF s
  <2>2. Sets(c, [c EXCEPT !.live = s])
    BY <2>1, OtherSets
  <2> QED BY <2>2 DEF s
<1>4. Sets(c, [c EXCEPT !.live.max_rate = v])
  <2> DEFINE s == [c.live EXCEPT !.max_rate = v]
  <2>1. /\ DOMAIN s = DOMAIN c.live
        /\ \A f \in {"soft", "jog_soft", "homing", "feed_rate", "hard", "max_travel"} : s[f] = c.live[f]
    BY SettingsFields DEF Agrees
  <2> HIDE DEF s
  <2>2. Sets(c, [c EXCEPT !.live = s])
    BY <2>1, OtherSets
  <2> QED BY <2>2 DEF s
<1>5. Sets(c, [c EXCEPT !.live.invert = v])
  <2> DEFINE s == [c.live EXCEPT !.invert = v]
  <2>1. /\ DOMAIN s = DOMAIN c.live
        /\ \A f \in {"soft", "jog_soft", "homing", "feed_rate", "hard", "max_travel"} : s[f] = c.live[f]
    BY SettingsFields DEF Agrees
  <2> HIDE DEF s
  <2>2. Sets(c, [c EXCEPT !.live = s])
    BY <2>1, OtherSets
  <2> QED BY <2>2 DEF s
<1>6. Sets(c, Refuse(c))
  BY RefuseSets
<1>7. Sets(c, SetMode(c, v))
  BY <1>1, <1>6 DEF SetMode
<1>8. Sets(c, SetParking(c, v))
  BY <1>2 DEF SetParking
<1>9. Sets(c, SetToolChange(c, v))
  BY <1>3, <1>6 DEF SetToolChange
<1>10. "pwm_invert" \in Caps \/ "pwm" \notin v => Sets(c, SetSpindleInvert(c, v))
  BY <1>5 DEF SetSpindleInvert
<1> QED BY <1>4, <1>7, <1>8, <1>9, <1>10

LEMMA ResetActionsSets ==
    ASSUME NEW c, Shaped(c), Agrees(c.live), c.ok = TRUE, NEW v
    PROVE  Sets(c, SetValue(c, "reset_actions", v))
<1> DEFINE homing == IF "homing" \in v THEN c.live.homing \ {"keep"} ELSE c.live.homing \cup {"keep"}
           offsets == "offsets" \notin v
           h == [c EXCEPT !.live.homing = homing, !.live.keep_offsets = offsets]
           l == [c.live EXCEPT !.homing = homing, !.keep_offsets = offsets]
           d == [c EXCEPT !.live = l]
<1>1. SetValue(c, "reset_actions", v) = h
  BY DEF SetValue, Legal
<1>2. \A x \in {"enabled", "per_axis"} : x \in homing <=> x \in c.live.homing
  OBVIOUS
<1> HIDE DEF homing, offsets
<1>3. h = d
  BY DEF Shaped, Fields
<1>4. /\ DOMAIN l = DOMAIN c.live /\ l.soft = c.live.soft /\ l.jog_soft = c.live.jog_soft
      /\ l.homing = homing /\ l.feed_rate = c.live.feed_rate /\ l.hard = c.live.hard
      /\ l.max_travel = c.live.max_travel
  BY SettingsFields DEF Agrees
<1> HIDE DEF l
<1>5. Agrees(l)
  BY <1>2, <1>4 DEF Agrees
<1>6. SameBuffer(c, d) /\ d.live = l /\ d.backup = c.backup /\ d.soft = c.soft /\ d.hard = c.hard /\ d.ok = c.ok
  BY DEF SameBuffer, Shaped, Fields
<1> HIDE DEF d, h
<1>7. Follows(c) => Follows(d)
  BY <1>4, <1>6 DEF Follows, SoftLimits
<1> QED BY <1>1, <1>3, <1>5, <1>6, <1>7 DEF Sets, Fits

\* A driver that cannot invert PWM takes the rest of the value.
LEMMA SetSpindleInvertFits ==
    ASSUME NEW c, Shaped(c), Agrees(c.live), c.ok = TRUE, NEW v
    PROVE  Fits(c, SetSpindleInvert(c, v)) /\ SetSpindleInvert(c, v).ok \in BOOLEAN
<1> DEFINE w == v \ {"pwm"}
           b == [c EXCEPT !.live.invert = w]
<1>1. CASE "pwm_invert" \in Caps \/ "pwm" \notin v
  BY <1>1, PlainSets DEF Sets
<1>2. CASE ~("pwm_invert" \in Caps \/ "pwm" \notin v)
  <2>1. SetSpindleInvert(c, v) = Refuse(b)
    BY <1>2 DEF SetSpindleInvert
  <2> HIDE DEF w
  <2> DEFINE s == [c.live EXCEPT !.invert = w]
             d == [c EXCEPT !.live = s]
  <2>2. /\ DOMAIN s = DOMAIN c.live
        /\ \A f \in {"soft", "jog_soft", "homing", "feed_rate", "hard", "max_travel"} : s[f] = c.live[f]
    BY SettingsFields DEF Agrees
  <2>3. b = d
    OBVIOUS
  <2> HIDE DEF s, b
  <2>4. Sets(c, d)
    BY <2>2, OtherSets
  <2>5. DOMAIN d = Fields
    BY DEF Shaped
  <2> HIDE DEF d
  <2>6. LET e == Refuse(d)
        IN /\ DOMAIN e = DOMAIN d /\ e.n = d.n /\ e.live = d.live /\ e.backup = d.backup
           /\ e.soft = d.soft /\ e.hard = d.hard /\ e.ok = FALSE
    BY <2>5 DEF Refuse, Fields
  <2> QED BY <2>1, <2>3, <2>4, <2>6 DEF Sets, Fits, SameBuffer, Follows
<1> QED BY <1>1, <1>2

LEMMA SetValueSets ==
    ASSUME NEW c, Shaped(c), Agrees(c.live), c.ok = TRUE, NEW id, NEW v
    PROVE  LET d == SetValue(c, id, v)
           IN /\ Fits(c, d) /\ d.ok \in BOOLEAN
              /\ \/ "pwm_invert" \in Caps
                 \/ id # "spindle_invert"
                 \/ "pwm" \notin v
                 => Sets(c, d)
<1> DEFINE d == SetValue(c, id, v)
<1>1. Sets(c, Refuse(c))
  BY RefuseSets
<1>2. ASSUME ~Legal(id, v) PROVE Sets(c, d)
  <2>1. d = Refuse(c)
    BY <1>2 DEF SetValue
  <2> HIDE DEF d
  <2> QED BY <1>1, <2>1
<1>3. ASSUME Legal(id, v), id = "spindle_invert"
      PROVE  /\ Fits(c, d) /\ d.ok \in BOOLEAN
             /\ "pwm_invert" \in Caps \/ "pwm" \notin v => Sets(c, d)
  <2>1. d = SetSpindleInvert(c, v)
    BY <1>3 DEF SetValue
  <2> HIDE DEF d
  <2>2. "pwm_invert" \in Caps \/ "pwm" \notin v => Sets(c, SetSpindleInvert(c, v))
    BY PlainSets
  <2>3. Fits(c, SetSpindleInvert(c, v)) /\ SetSpindleInvert(c, v).ok \in BOOLEAN
    BY SetSpindleInvertFits
  <2> QED BY <2>1, <2>2, <2>3
<1>4. ASSUME Legal(id, v), id # "spindle_invert" PROVE Sets(c, d)
  <2>1. CASE id = "reset_actions"
    BY <2>1, ResetActionsSets
  <2>2. CASE id \in {"acceleration", "max_travel", "max_rate", "homing"}
    <3>1. d \in {SetAcceleration(c, v), SetMaxTravel(c, v), [c EXCEPT !.live.max_rate = v],
                 SetHomingEnable(c, v)}
      BY <1>4, <2>2 DEF SetValue
    <3> HIDE DEF d
    <3>2. Sets(c, SetAcceleration(c, v))  BY SetAccelerationSets
    <3>3. Sets(c, SetMaxTravel(c, v))  BY SetMaxTravelSets
    <3>4. Sets(c, [c EXCEPT !.live.max_rate = v])  BY PlainSets
    <3>5. Sets(c, SetHomingEnable(c, v))  BY SetHomingSets
    <3> QED BY <3>1, <3>2, <3>3, <3>4, <3>5
  <2>3. CASE id \in {"homing_feed", "axis_feed", "soft_limits", "jog_soft"}
    <3>1. \/ d \in {SetHomingFeedRate(c, v), SetSoftLimits(c, v), SetJogSoftLimited(c, v), Refuse(c)}
          \/ "per_axis" \in c.live.homing /\ d = [c EXCEPT !.live.feed_rate["Y"] = v]
      BY <1>4, <2>3 DEF SetValue
    <3> HIDE DEF d
    <3>2. Sets(c, SetHomingFeedRate(c, v))  BY SetFeedRateSets
    <3>3. "per_axis" \in c.live.homing => Sets(c, [c EXCEPT !.live.feed_rate["Y"] = v])  BY SetAxisFeedSets
    <3>4. Sets(c, SetSoftLimits(c, v))  BY SetSoftLimitsSets
    <3>5. Sets(c, SetJogSoftLimited(c, v))  BY SetJogSoftSets
    <3> QED BY <1>1, <3>1, <3>2, <3>3, <3>4, <3>5
  <2>4. CASE id \in {"hard_limits", "mode", "parking", "tool_change"}
    <3>1. d \in {SetHardLimits(c, v), SetMode(c, v), SetParking(c, v), SetToolChange(c, v)}
      BY <1>4, <2>4 DEF SetValue
    <3> HIDE DEF d
    <3>2. Sets(c, d)
      BY <3>1, SetHardLimitsSets, PlainSets
    <3> QED BY <3>2
  <2>5. ASSUME id \notin {"reset_actions", "acceleration", "max_travel", "max_rate", "homing", "homing_feed",
                        "axis_feed", "soft_limits", "jog_soft", "hard_limits", "mode", "parking",
                          "tool_change"}
        PROVE  Sets(c, d)
    <3>1. d = Refuse(c)
      BY <1>4, <2>5 DEF SetValue
    <3> HIDE DEF d
    <3> QED BY <1>1, <3>1
  <2> QED BY <2>1, <2>2, <2>3, <2>4, <2>5
<1>5. Sets(c, d) => Fits(c, d) /\ d.ok \in BOOLEAN
  BY DEF Sets
<1> HIDE DEF d
<1> QED BY <1>2, <1>3, <1>4, <1>5 DEF d

-----------------------------------------------------------------------------
(* The handlers, and what they leave in RAM                                 *)

\* d has the blocks of c in RAM that could be read there.
KeepsReadable(c, d) ==
    \A b \in Blocks \ {Global} : c.n.ram[b] # Torn => d.n.ram[b] = c.n.ram[b]

LEMMA BesideItself ==
    ASSUME NEW c, Shaped(c) PROVE Beside(c, c) /\ KeepsReadable(c, c)
  BY DEF Beside, Cell, KeepsReadable

LEMMA BesideWrite ==
    ASSUME NEW c, NEW d, NEW values, Shaped(c), DOMAIN values \subseteq Blocks \ {Global},
           DOMAIN d = Fields, d.n = Write(c.n, values),
           d.live = c.live, d.backup = c.backup, d.soft = c.soft, d.hard = c.hard
    PROVE  /\ Beside(c, d) /\ d.n.phys = c.n.phys
           /\ \A b \in Blocks : b \notin DOMAIN values => d.n.ram[b] = c.n.ram[b]
<1>1. /\ IsBuffer(d.n) /\ d.n.phys = c.n.phys
      /\ \A b \in Blocks : d.n.ram[b] = IF b \in DOMAIN values THEN values[b] ELSE c.n.ram[b]
  BY WriteStores DEF Shaped
<1>2. Global \in Blocks /\ Global \notin DOMAIN values
  BY DEF Blocks
<1> QED BY <1>1, <1>2 DEF Beside, Shaped, Cell

LEMMA PersistentFields ==
    ASSUME NEW s, Agrees(s), NEW backup
    PROVE  LET w == Persistent(s, backup)
           IN \A f \in DOMAIN s \ {"acceleration"} : w[f] = s[f]
  BY DEF Persistent

LEMMA WriteGlobalStores ==
    ASSUME NEW c, Shaped(c), Agrees(c.live)
    PROVE  LET d == WriteGlobal(c)
           IN /\ Shaped(d) /\ d.live = Persistent(c.live, c.backup) /\ d.backup = c.backup
              /\ d.n.ram[Global] = d.live /\ d.n.phys = c.n.phys
              /\ \A b \in Blocks \ {Global} : d.n.ram[b] = c.n.ram[b]
              /\ Agrees(d.live) /\ Saved(d)
              /\ Holds(c.n) => Holds(d.n)
              /\ Follows(c) => Follows(d)
<1> DEFINE live == Persistent(c.live, c.backup)
           values == One(Global, live)
           d == WriteGlobal(c)
<1>1. DOMAIN values = {Global} /\ values[Global] = live /\ Global \in Blocks
  BY DEF One, Blocks
<1>2. d = [c EXCEPT !.live = live, !.n = Write(c.n, values)]
  BY DEF WriteGlobal
<1>3. Agrees(live)
  BY PersistentAgrees
<1>4. Persistent(live, c.backup) = live
  BY PersistentTwice
<1>5. live.soft = c.live.soft /\ live.max_travel = c.live.max_travel /\ live.hard = c.live.hard
  BY PersistentFields, SettingsFields DEF Agrees
<1> HIDE DEF values, live, d
<1>6. /\ DOMAIN d = Fields /\ d.n = Write(c.n, values) /\ d.live = live /\ d.backup = c.backup
      /\ d.soft = c.soft /\ d.hard = c.hard
  BY <1>2 DEF Shaped, Fields
<1>7. /\ IsBuffer(d.n) /\ d.n.phys = c.n.phys
      /\ \A b \in Blocks : d.n.ram[b] = IF b \in DOMAIN values THEN values[b] ELSE c.n.ram[b]
  BY <1>1, <1>6, WriteStores DEF Shaped
<1>8. d.n.ram[Global] = live /\ \A b \in Blocks \ {Global} : d.n.ram[b] = c.n.ram[b]
  BY <1>1, <1>7
<1>9. Shaped(d)
  BY <1>6, <1>7 DEF Shaped
<1>10. Saved(d)
  BY <1>4, <1>6, <1>8 DEF Saved
<1>11. Holds(c.n) => Holds(d.n)
  BY <1>3, <1>7, <1>8 DEF Holds, Cell
<1>12. Follows(c) => Follows(d)
  BY <1>5, <1>6 DEF Follows, SoftLimits
<1> QED BY <1>3, <1>6, <1>7, <1>8, <1>9, <1>10, <1>11, <1>12 DEF d, live

LEMMA StoredStores ==
    ASSUME NEW c, Shaped(c), Agrees(c.live), Holds(c.n), NEW id, NEW v
    PROVE  LET d == Stored(c, id, v)
           IN /\ Shaped(d) /\ Agrees(d.live) /\ Holds(d.n)
              /\ Follows(c) => Follows(d)
              /\ Saved(c) /\ ("pwm_invert" \in Caps \/ id # "spindle_invert" \/ "pwm" \notin v)
                    => Saved(d)
<1> DEFINE b == [c EXCEPT !.ok = TRUE]
           d == SetValue(b, id, v)
           e == Stored(c, id, v)
<1>1. e = IF d.ok THEN WriteGlobal(d) ELSE d
  BY DEF Stored
<1>2. /\ DOMAIN b = Fields /\ b.n = c.n /\ b.live = c.live /\ b.backup = c.backup
      /\ b.soft = c.soft /\ b.hard = c.hard /\ b.ok = TRUE
  BY DEF Shaped, Fields
<1> HIDE DEF b, e
<1>3. Shaped(b) /\ (Follows(c) => Follows(b))
  BY <1>2 DEF Shaped, Follows
<1>4. /\ Fits(b, d) /\ d.ok \in BOOLEAN
      /\ "pwm_invert" \in Caps \/ id # "spindle_invert" \/ "pwm" \notin v => Sets(b, d)
  BY <1>2, <1>3, SetValueSets
<1> HIDE DEF d
<1>5. /\ Shaped(d) /\ d.n = c.n /\ Agrees(d.live)
      /\ Follows(c) => Follows(d)
  BY <1>2, <1>3, <1>4 DEF Fits, SameBuffer, Shaped
<1>6. CASE d.ok = TRUE
  BY <1>1, <1>5, <1>6, WriteGlobalStores DEF e
<1>7. CASE d.ok = FALSE
  <2>1. Saved(c) /\ Sets(b, d) => Saved(d)
    BY <1>2, <1>5, <1>7 DEF Saved, Sets
  <2> QED BY <1>1, <1>4, <1>5, <1>7, <2>1 DEF e
<1> QED BY <1>4, <1>6, <1>7

LEMMA RestorePluginStores ==
    ASSUME NEW c, Shaped(c)
    PROVE  LET d == RestorePlugin(c)
           IN /\ Beside(c, d) /\ d.n.phys = c.n.phys
              /\ \A b \in Blocks \ {Driver} : d.n.ram[b] = c.n.ram[b]
<1> DEFINE values == One(Driver, Clear)
           d == RestorePlugin(c)
<1>1. DOMAIN values = {Driver} /\ Driver \in Blocks \ {Global}
  BY DEF One, Blocks, Driver, Global
<1>2. d = [c EXCEPT !.plugin = Clear, !.n = Write(c.n, values)]
  BY DEF RestorePlugin
<1> HIDE DEF values, d
<1>3. /\ DOMAIN d = Fields /\ d.n = Write(c.n, values) /\ d.live = c.live /\ d.backup = c.backup
      /\ d.soft = c.soft /\ d.hard = c.hard
  BY <1>2 DEF Shaped, Fields
<1>4. /\ Beside(c, d) /\ d.n.phys = c.n.phys
      /\ \A b \in Blocks : b \notin DOMAIN values => d.n.ram[b] = c.n.ram[b]
  BY <1>1, <1>3, BesideWrite
<1> QED BY <1>1, <1>4 DEF d

LEMMA SyncedBeside ==
    ASSUME NEW c, Shaped(c), NEW failed PROVE Beside(c, Synced(c, failed))
<1> DEFINE n == SyncPhysical(c.n, failed)
           d == Synced(c, failed)
<1>1. IsBuffer(n) /\ n.ram = c.n.ram /\ \A b \in Blocks : n.phys[b] \in Cell(c.n, b)
  BY SyncStores DEF Shaped
<1>2. d = [c EXCEPT !.n = n]
  BY DEF Synced
<1> HIDE DEF n, d
<1>3. /\ DOMAIN d = Fields /\ d.n = n /\ d.live = c.live /\ d.backup = c.backup
      /\ d.soft = c.soft /\ d.hard = c.hard
  BY <1>2 DEF Shaped, Fields
<1>4. Global \in Blocks
  BY DEF Blocks
<1>5. Beside(c, d)
  BY <1>1, <1>3, <1>4 DEF Beside, Shaped
<1> QED BY <1>5 DEF d

\* A restore leaves the settings alone, or writes the defaults.
LEMMA RestoredStores ==
    ASSUME NEW c, Shaped(c), NEW what
    PROVE  LET d == Restored(c, what)
           IN /\ Shaped(d) /\ d.backup = c.backup /\ d.n.phys = c.n.phys
              /\ "defaults" \notin what => Beside(c, d)
              /\ "defaults" \in what =>
                    Agrees(d.live) /\ Saved(d) /\ d.n.ram[Global] = d.live
<1> DEFINE forced == [c EXCEPT !.n = PutVersion(c.n)]
           fresh == [forced EXCEPT !.live = Defaults]
           global == IF "defaults" \in what THEN WriteGlobal(fresh) ELSE forced
           values == Cleared(what)
           cleared == [global EXCEPT !.n = Write(global.n, values)]
           d == Restored(c, what)
<1>1. d = IF "driver_parameters" \in what THEN RestorePlugin(cleared) ELSE cleared
  BY DEF Restored
<1>2. Global \in Blocks \ {Version}
  BY DEF Blocks, Global, Version
<1>3. /\ IsBuffer(PutVersion(c.n)) /\ PutVersion(c.n).phys = c.n.phys
      /\ PutVersion(c.n).ram[Global] = c.n.ram[Global]
  BY <1>2, PutVersionStores DEF Shaped
<1>4. /\ Beside(c, forced) /\ forced.n.phys = c.n.phys
  BY <1>3 DEF Shaped, Fields, Beside, Cell
<1> HIDE DEF forced
<1>5. /\ Shaped(fresh) /\ fresh.live = Defaults /\ fresh.backup = c.backup /\ fresh.n = forced.n
  BY <1>4 DEF Beside, Shaped, Fields
<1> HIDE DEF fresh
<1>6. LET e == WriteGlobal(fresh)
      IN /\ Shaped(e) /\ e.backup = c.backup /\ e.n.phys = c.n.phys
         /\ e.n.ram[Global] = e.live /\ Agrees(e.live) /\ Saved(e)
  BY <1>4, <1>5, DefaultsAgree, WriteGlobalStores
<1>7. /\ Shaped(global) /\ global.backup = c.backup /\ global.n.phys = c.n.phys
      /\ "defaults" \notin what => Beside(c, global)
      /\ "defaults" \in what => Agrees(global.live) /\ Saved(global) /\ global.n.ram[Global] = global.live
  BY <1>4, <1>6 DEF Beside
<1> HIDE DEF global
<1>8. DOMAIN values \subseteq Blocks \ {Global}
  BY DEF Cleared, Blocks, Global, Coord, Tool, Startup, Build
<1> HIDE DEF values
<1>9. /\ DOMAIN cleared = Fields /\ cleared.n = Write(global.n, values) /\ cleared.live = global.live
      /\ cleared.backup = global.backup /\ cleared.soft = global.soft /\ cleared.hard = global.hard
  BY <1>7 DEF Shaped, Fields
<1> HIDE DEF cleared
<1>10. Beside(global, cleared) /\ cleared.n.phys = global.n.phys
  BY <1>7, <1>8, <1>9, BesideWrite
<1>11. Beside(cleared, RestorePlugin(cleared)) /\ RestorePlugin(cleared).n.phys = cleared.n.phys
  BY <1>10, RestorePluginStores DEF Beside
<1>12. Beside(global, d) /\ d.n.phys = global.n.phys
  BY <1>1, <1>10, <1>11, BesideTransitive
<1> HIDE DEF d
<1>13. "defaults" \notin what => Beside(c, d)
  BY <1>7, <1>12, BesideTransitive
<1>14. "defaults" \in what => Agrees(d.live) /\ Saved(d) /\ d.n.ram[Global] = d.live
  BY <1>7, <1>12, BesideKeeps DEF Beside
<1> QED BY <1>7, <1>12, <1>13, <1>14 DEF d, Beside

LEMMA ReadBlockStores ==
    ASSUME NEW c, Shaped(c), NEW b \in Blocks \ {Global}, NEW failed
    PROVE  LET d == ReadBlock(c, b, failed)
           IN Beside(c, d) /\ (b[1] = "coord" => KeepsReadable(c, d))
<1> DEFINE values == One(b, Clear)
           e == [c EXCEPT !.n = Write(c.n, values)]
           r == Restored(c, {"build_info"})
           k == Synced(r, failed)
           d == ReadBlock(c, b, failed)
<1>1. \/ d = c
      \/ b[1] = "build" /\ d = k
      \/ ~ReadOk(c.n, b) /\ d = e
  BY DEF ReadBlock
<1>2. DOMAIN values = {b}
  BY DEF One
<1> HIDE DEF values, d
<1>3. /\ DOMAIN e = Fields /\ e.n = Write(c.n, values) /\ e.live = c.live /\ e.backup = c.backup
      /\ e.soft = c.soft /\ e.hard = c.hard
  BY DEF Shaped, Fields
<1> HIDE DEF e
<1>4. Beside(c, e) /\ \A x \in Blocks : x # b => e.n.ram[x] = c.n.ram[x]
  BY <1>2, <1>3, BesideWrite
<1>5. ~ReadOk(c.n, b) => KeepsReadable(c, e)
  BY <1>4 DEF ReadOk, KeepsReadable
<1>6. Beside(c, r)
  BY RestoredStores
<1> HIDE DEF r
<1>7. Beside(r, k)
  BY <1>6, SyncedBeside DEF Beside
<1> HIDE DEF k
<1>8. Beside(c, k)
  BY <1>6, <1>7, BesideTransitive
<1> QED BY <1>1, <1>4, <1>5, <1>8, BesideItself DEF d

LEMMA ResetStores ==
    ASSUME NEW c, Shaped(c) PROVE Beside(c, Reset(c)) /\ KeepsReadable(c, Reset(c))
<1> DEFINE d == ReadBlock(c, Coord(540), {})
           alarm == d.alarm \/ HomingRequired(d)
           e == [d EXCEPT !.alarm = alarm]
<1>1. Reset(c) = e
  BY DEF Reset
<1>2. Coord(540) \in Blocks \ {Global} /\ Coord(540)[1] = "coord"
  BY CoordsAssumption DEF Blocks, Coord, Global
<1>3. Beside(c, d) /\ KeepsReadable(c, d)
  BY <1>2, ReadBlockStores
<1> HIDE DEF d, alarm
<1>4. /\ DOMAIN e = Fields /\ e.n = d.n /\ e.live = d.live /\ e.backup = d.backup
      /\ e.soft = d.soft /\ e.hard = d.hard
  BY <1>3 DEF Beside, Shaped, Fields
<1> HIDE DEF e
<1> QED BY <1>1, <1>3, <1>4 DEF Beside, Shaped, KeepsReadable

LEMMA RestoringStores ==
    ASSUME NEW c, Shaped(c), Agrees(c.live), Holds(c.n), NEW what, NEW failed
    PROVE  LET d == Synced(Restored(c, what), failed)
           IN /\ Shaped(d) /\ d.backup = c.backup /\ Agrees(d.live) /\ Holds(d.n)
              /\ Saved(c) \/ "defaults" \in what => Saved(d)
              /\ "defaults" \notin what => Beside(c, d)
<1> DEFINE r == Restored(c, what)
           d == Synced(r, failed)
<1>1. /\ Shaped(r) /\ r.backup = c.backup /\ r.n.phys = c.n.phys
      /\ "defaults" \notin what => Beside(c, r)
      /\ "defaults" \in what => Agrees(r.live) /\ Saved(r) /\ r.n.ram[Global] = r.live
  BY RestoredStores
<1> HIDE DEF r
<1>2. Agrees(r.live) /\ (Saved(c) \/ "defaults" \in what => Saved(r))
  BY <1>1, BesideKeeps
<1>3. Holds(r.n)
  <2>1. CASE "defaults" \in what
    BY <1>1, <2>1 DEF Holds, Cell
  <2>2. CASE "defaults" \notin what
    BY <1>1, <2>2, BesideKeeps
  <2> QED BY <2>1, <2>2
<1>4. Beside(r, d)
  BY <1>1, SyncedBeside
<1> HIDE DEF d
<1>5. Agrees(d.live) /\ Holds(d.n) /\ (Saved(r) => Saved(d))
  BY <1>2, <1>3, <1>4, BesideKeeps
<1>6. "defaults" \notin what => Beside(c, d)
  BY <1>1, <1>4, BesideTransitive
<1> QED BY <1>1, <1>2, <1>4, <1>5, <1>6 DEF Beside, d, r

\* A start, step by step
Begun(c) == Shaped(c) /\ Agrees(c.live) /\ Holds(c.n) /\ c.backup.valid = FALSE

LEMMA NvsBufferInitStores ==
    ASSUME NEW c, NEW failed, Begun(c)
    PROVE  LET d == NvsBufferInit(c, failed)
           IN /\ Begun(d)
              /\ Storage # "None" /\ c.n.phys[Version] = "now" => d.n.ram = c.n.phys
<1> DEFINE l == [c EXCEPT !.n = Loaded(c.n)]
           r == Synced(Restored(l, Everything), failed)
           i == [r EXCEPT !.n = WriteImage(r.n, failed)]
           d == NvsBufferInit(c, failed)
<1>1. d = IF Usable(l.n) THEN l ELSE i
  BY DEF NvsBufferInit
<1>2. Global \in Blocks
  BY DEF Blocks
<1>3. IsBuffer(Loaded(c.n)) /\ Loaded(c.n).ram = c.n.phys /\ Loaded(c.n).phys = c.n.phys
  BY LoadedStores DEF Begun, Shaped
<1>4. DOMAIN l = Fields /\ l.n = Loaded(c.n) /\ l.live = c.live /\ l.backup = c.backup
  BY DEF Begun, Shaped, Fields
<1> HIDE DEF l, d
<1>5. Begun(l) /\ l.n.ram = c.n.phys
  BY <1>3, <1>4 DEF Begun, Shaped, Holds, Cell
<1>6. Begun(r)
  BY <1>5, RestoringStores DEF Begun
<1> HIDE DEF r
<1>7. /\ IsBuffer(WriteImage(r.n, failed)) /\ WriteImage(r.n, failed).ram = r.n.ram
      /\ WriteImage(r.n, failed).phys[Global] \in Cell(r.n, Global)
  BY <1>2, <1>6, ImageStores DEF Begun, Shaped
<1>8. DOMAIN i = Fields /\ i.n = WriteImage(r.n, failed) /\ i.live = r.live /\ i.backup = r.backup
  BY <1>6 DEF Begun, Shaped, Fields
<1> HIDE DEF i
<1>9. Begun(i)
  BY <1>6, <1>7, <1>8 DEF Begun, Shaped, Holds, Cell
<1>10. Storage # "None" /\ c.n.phys[Version] = "now" => Usable(l.n)
  BY <1>5 DEF Usable
<1> QED BY <1>1, <1>5, <1>9, <1>10 DEF d

LEMMA ReadGlobalStores ==
    ASSUME NEW c, NEW failed, Begun(c), MaxRate \in Int
    PROVE  LET d == ReadGlobal(c, failed)
           IN /\ Begun(d) /\ Saved(d)
              /\ c.n.ram[Version] = "now" /\ Torn # "now" /\ c.n.ram[Global] # Torn =>
                    d.n = c.n /\ d.live = Sane(c.n.ram[Global])
<1> DEFINE s == c.n.ram[Global]
           l == [c EXCEPT !.live = Sane(s)]
           r == Synced(Restored(c, Everything), failed)
           d == ReadGlobal(c, failed)
<1>1. d = IF ReadOk(c.n, Version) /\ ReadOk(c.n, Global) THEN l ELSE r
  BY DEF ReadGlobal
<1>2. DOMAIN l = Fields /\ l.n = c.n /\ l.live = Sane(s) /\ l.backup = c.backup
  BY DEF Begun, Shaped, Fields
<1>3. "defaults" \in Everything
  BY DEF Everything
<1> HIDE DEF l, d
<1>4. ReadOk(c.n, Global) => Begun(l) /\ Saved(l)
  <2> SUFFICES ASSUME ReadOk(c.n, Global) PROVE Begun(l) /\ Saved(l)
    OBVIOUS
  <2>1. Agrees(s)
    BY DEF ReadOk, Begun, Holds, Cell
  <2>2. Agrees(Sane(s))
    BY <2>1, SaneAgrees
  <2>3. Sane(Sane(s)) = Sane(s) /\ Persistent(Sane(s), c.backup) = Sane(s)
    BY <2>1, SaneTwice DEF Begun
  <2> QED BY <1>2, <2>2, <2>3 DEF Begun, Shaped, Saved
<1>5. Begun(r) /\ Saved(r)
  BY <1>3, RestoringStores DEF Begun
<1> HIDE DEF r
<1> QED BY <1>1, <1>2, <1>4, <1>5 DEF d, ReadOk

LEMMA LimitsStore ==
    ASSUME NEW c, Begun(c), Saved(c)
    PROVE  LET d == WithHardLimits(WithSoftLimits(c))
           IN Begun(d) /\ Saved(d) /\ Follows(d) /\ d.n = c.n /\ d.live = c.live
<1> DEFINE soft == SoftLimits(c.live)
           b == [c EXCEPT !.soft = soft]
           hard == "enabled" \in b.live.hard
           d == [b EXCEPT !.hard = hard]
<1>1. d = WithHardLimits(WithSoftLimits(c))
  BY DEF WithHardLimits, WithSoftLimits
<1>2. hard = ("enabled" \in c.live.hard)
  BY DEF Begun, Shaped, Fields
<1> HIDE DEF soft, hard
<1>3. /\ DOMAIN d = Fields /\ d.n = c.n /\ d.live = c.live /\ d.backup = c.backup
      /\ d.soft = soft /\ d.hard = hard
  BY DEF Begun, Shaped, Fields
<1> HIDE DEF d
<1>4. Begun(d) /\ Saved(d)
  BY <1>3 DEF Begun, Shaped, Saved
<1>5. Follows(d)
  BY <1>2, <1>3 DEF Follows, soft
<1> QED BY <1>1, <1>3, <1>4, <1>5

LEMMA LoadPluginStores ==
    ASSUME NEW c, Shaped(c) PROVE Beside(c, LoadPlugin(c)) /\ KeepsReadable(c, LoadPlugin(c))
<1> DEFINE l == [c EXCEPT !.plugin = c.n.ram[Driver]]
           r == RestorePlugin(c)
           d == LoadPlugin(c)
<1>1. d = IF ReadOk(c.n, Driver) THEN l ELSE r
  BY DEF LoadPlugin
<1>2. /\ DOMAIN l = Fields /\ l.n = c.n /\ l.live = c.live /\ l.backup = c.backup
      /\ l.soft = c.soft /\ l.hard = c.hard
  BY DEF Shaped, Fields
<1> HIDE DEF l, d
<1>3. Beside(c, l) /\ KeepsReadable(c, l)
  BY <1>2 DEF Beside, Shaped, Cell, KeepsReadable
<1>4. Beside(c, r) /\ \A b \in Blocks \ {Driver} : r.n.ram[b] = c.n.ram[b]
  BY RestorePluginStores
<1> HIDE DEF r
<1>5. ~ReadOk(c.n, Driver) => KeepsReadable(c, r)
  BY <1>4 DEF KeepsReadable, ReadOk
<1> QED BY <1>1, <1>3, <1>4, <1>5 DEF d

LEMMA SetBuildStores ==
    ASSUME NEW c, Begun(c), Saved(c), Follows(c), NEW s
    PROVE  LET d == SetBuild(c)
           IN /\ Begun(d) /\ Saved(d) /\ Follows(d) /\ KeepsReadable(c, d)
              /\ c.live = Sane(s) => d.live = [c.live EXCEPT !.build = "this"]
<1> DEFINE live == [c.live EXCEPT !.build = "this"]
           b == [c EXCEPT !.live = live]
           w == WriteGlobal(b)
           d == SetBuild(c)
<1>1. d = IF c.live.build = "this" THEN c ELSE w
  BY DEF SetBuild
<1>2. /\ DOMAIN live = DOMAIN c.live
      /\ \A f \in DOMAIN c.live \ {"build"} : live[f] = c.live[f]
  OBVIOUS
<1>3. Agrees(live)
  BY <1>2, SettingsFields DEF Begun, Agrees
<1>4. live.soft = c.live.soft /\ live.max_travel = c.live.max_travel /\ live.hard = c.live.hard
  BY <1>2, SettingsFields DEF Begun, Agrees
<1>5. Persistent(live, c.backup) = live
  <2>1. Persistent(live, c.backup) = [live EXCEPT !.acceleration = live.acceleration]
    BY DEF Persistent, Begun
  <2> QED BY <2>1
<1>6. c.live = Sane(s) /\ c.live.build = "this" => c.live = live
  BY DEF Sane
<1> HIDE DEF live, d
<1>7. /\ DOMAIN b = Fields /\ b.n = c.n /\ b.live = live /\ b.backup = c.backup
      /\ b.soft = c.soft /\ b.hard = c.hard
  BY DEF Begun, Shaped, Fields
<1> HIDE DEF b
<1>8. Begun(b) /\ Follows(b)
  BY <1>3, <1>4, <1>7 DEF Begun, Shaped, Follows, SoftLimits
<1>9. /\ Begun(w) /\ Saved(w) /\ Follows(w) /\ w.live = live
      /\ \A x \in Blocks \ {Global} : w.n.ram[x] = c.n.ram[x]
  BY <1>5, <1>7, <1>8, WriteGlobalStores DEF Begun
<1> HIDE DEF w
<1>10. KeepsReadable(c, w) /\ KeepsReadable(c, c)
  BY <1>9 DEF KeepsReadable
<1> QED BY <1>1, <1>6, <1>9, <1>10 DEF d, live


\* A start: the settings in use are stored, fit each other, and what could be read is kept.
LEMMA StartedStores ==
    ASSUME NEW n, NEW failed, IsBuffer(n), Holds(n), MaxRate \in Int
    PROVE  LET d == Started(n, failed)
           IN /\ Shaped(d) /\ Agrees(d.live) /\ Holds(d.n) /\ Saved(d) /\ Follows(d)
              /\ Storage # "None" /\ Torn # "now" /\ n.phys[Version] = "now" /\ n.phys[Global] # Torn =>
                    /\ \A b \in Blocks \ {Global} : n.phys[b] # Torn => d.n.ram[b] = n.phys[b]
                    /\ d.live = [Sane(n.phys[Global]) EXCEPT !.build = "this"]
<1> DEFINE fresh == Fresh(n)
           initial == NvsBufferInit(fresh, failed)
           global == ReadGlobal(initial, failed)
           read == WithHardLimits(WithSoftLimits(global))
           plugin == LoadPlugin(read)
           build == SetBuild(plugin)
           reset == Reset(build)
           d == ReadBlock(reset, Coord(920), {})
           kept == Storage # "None" /\ Torn # "now" /\ n.phys[Version] = "now" /\ n.phys[Global] # Torn
<1>1. Started(n, failed) = d
  BY DEF Started
<1>2. Begun(fresh) /\ fresh.n = n
  BY DefaultsAgree DEF Begun, Shaped, Fields, Fresh
<1> HIDE DEF fresh
<1>3. Begun(initial) /\ (kept => initial.n.ram = n.phys)
  BY <1>2, NvsBufferInitStores
<1> HIDE DEF initial
<1>4. /\ Begun(global) /\ Saved(global)
      /\ kept => global.n.ram = n.phys /\ global.live = Sane(n.phys[Global])
  BY <1>3, ReadGlobalStores
<1> HIDE DEF global
<1>5. /\ Begun(read) /\ Saved(read) /\ Follows(read)
      /\ read.n = global.n /\ read.live = global.live
  BY <1>4, LimitsStore
<1> HIDE DEF read
<1>6. Beside(read, plugin) /\ KeepsReadable(read, plugin)
  BY <1>5, LoadPluginStores DEF Begun
<1> HIDE DEF plugin
<1>7. Begun(plugin) /\ Saved(plugin) /\ Follows(plugin)
  BY <1>5, <1>6, BesideKeeps DEF Begun, Beside
<1>8. /\ Begun(build) /\ Saved(build) /\ Follows(build) /\ KeepsReadable(plugin, build)
      /\ \A s : plugin.live = Sane(s) => build.live = [plugin.live EXCEPT !.build = "this"]
  BY <1>7, SetBuildStores
<1> HIDE DEF build
<1>9. Beside(build, reset) /\ KeepsReadable(build, reset)
  BY <1>8, ResetStores DEF Begun
<1> HIDE DEF reset
<1>10. Coord(920) \in Blocks \ {Global} /\ Coord(920)[1] = "coord"
  BY CoordsAssumption DEF Blocks, Coord, Global
<1>11. Beside(reset, d) /\ KeepsReadable(reset, d)
  BY <1>9, <1>10, ReadBlockStores DEF Beside
<1> HIDE DEF d
<1>12. Beside(build, d)
  BY <1>9, <1>11, BesideTransitive
<1>13. Shaped(d) /\ Agrees(d.live) /\ Holds(d.n) /\ Saved(d) /\ Follows(d)
  BY <1>8, <1>12, BesideKeeps DEF Begun, Beside
<1>14. ASSUME kept PROVE d.live = [Sane(n.phys[Global]) EXCEPT !.build = "this"]
  <2>1. plugin.live = Sane(n.phys[Global])
    BY <1>4, <1>5, <1>6, <1>14 DEF Beside
  <2>2. d.live = build.live
    BY <1>12 DEF Beside
  <2> QED BY <1>8, <2>1, <2>2
<1>15. ASSUME kept, NEW b \in Blocks \ {Global}, n.phys[b] # Torn PROVE d.n.ram[b] = n.phys[b]
  <2>1. read.n.ram[b] = n.phys[b]
    BY <1>4, <1>5, <1>15
  <2>2. plugin.n.ram[b] = n.phys[b]
    BY <1>6, <1>15, <2>1 DEF KeepsReadable
  <2>3. build.n.ram[b] = n.phys[b]
    BY <1>8, <1>15, <2>2 DEF KeepsReadable
  <2>4. reset.n.ram[b] = n.phys[b]
    BY <1>9, <1>15, <2>3 DEF KeepsReadable
  <2> QED BY <1>11, <1>15, <2>4 DEF KeepsReadable
<1> QED BY <1>1, <1>13, <1>14, <1>15


-----------------------------------------------------------------------------
(* The specification, second time.                                          *)

\* What a power failure leaves of the storage fits each other.
LEMMA InterruptedHolds ==
    ASSUME NEW n, IsBuffer(n), Holds(n), NEW b
    PROVE  LET phys == Interrupted(n, b)
           IN DOMAIN phys = Blocks /\ (phys[Global] = Torn \/ Agrees(phys[Global]))
<1>1. Global \in Blocks
  BY DEF Blocks
<1>2. n.ram[Global] = Torn \/ Agrees(n.ram[Global])
  BY DEF Holds, Cell
<1>3. n.phys[Global] = Torn \/ Agrees(n.phys[Global])
  BY DEF Holds, Cell
<1>4. Interrupted(n, b)[Global] \in {Torn, n.ram[Global], n.phys[Global]}
  BY <1>1 DEF Interrupted
<1>5. DOMAIN Interrupted(n, b) = Blocks
  BY DEF Interrupted
<1> QED BY <1>2, <1>3, <1>4, <1>5

\* Blocks are written beside the settings, and what the storage holds at first is torn or fits.
BlocksApart == \A x \in Menus : x.blocks \subseteq Blocks \ {Global}
ForeignAgrees == \A phys \in Foreign : phys[Global] = Torn \/ Agrees(phys[Global])

\* No run restores the defaults: their soft and hard limits are not those derived before.
NoDefaults == \A x \in Menus : \A what \in x.restores : "defaults" \notin what

\* The inductive invariant.  Whether the stored settings are those in use, and whether what is
\* derived follows, depends on the menus and on the power; that they fit each other does not.
Intact(c) == Shaped(c) /\ Agrees(c.live) /\ Holds(c.n)
Current(c) == (InvertsFit => Saved(c)) /\ (NoDefaults => Follows(c))
IntactInv == Intact(m) /\ menu \in Menus /\ (on => Current(m))

LEMMA BesideIntact ==
    ASSUME NEW c, NEW d, Intact(c), Beside(c, d) PROVE Intact(d) /\ (Current(c) => Current(d))
<1>1. Agrees(d.live) /\ Holds(d.n)
  BY BesideKeeps DEF Intact
<1>2. (Saved(c) => Saved(d)) /\ (Follows(c) => Follows(d))
  BY BesideKeeps
<1> QED BY <1>1, <1>2 DEF Intact, Current, Beside

LEMMA StartsIntact ==
    ASSUME ForeignAgrees, Init PROVE IntactInv
<1>1. PICK phys \in Foreign : m = Fresh(Buffer(phys))
  BY DEF Init
<1> DEFINE n == Buffer(phys)
<1>2. IsBuffer(n) /\ Holds(n)
  BY ForeignAssumption, BufferGood DEF Good, Holds, Cell, ForeignAgrees
<1> HIDE DEF n
<1>3. DOMAIN m = Fields /\ m.n = n /\ m.live = Defaults /\ DOMAIN m.backup = {"valid", "acceleration"}
  BY <1>1 DEF Fresh, Fields, n
<1>4. Intact(m)
  BY <1>2, <1>3, DefaultsAgree DEF Intact, Shaped
<1> QED BY <1>4 DEF Init, IntactInv

LEMMA OffIntact ==
    ASSUME IntactInv, NEW phys, DOMAIN phys = Blocks, phys[Global] = Torn \/ Agrees(phys[Global]),
           Off(phys)
    PROVE  IntactInv'
<1> DEFINE n == Buffer(phys)
<1>1. m' = [m EXCEPT !.n = n] /\ on' = FALSE /\ menu' = menu
  BY DEF Off
<1>2. IsBuffer(n) /\ Holds(n)
  BY BufferGood DEF Good, Holds, Cell
<1> HIDE DEF n
<1>3. DOMAIN m' = Fields /\ m'.n = n /\ m'.live = m.live /\ m'.backup = m.backup
  BY <1>1 DEF IntactInv, Intact, Shaped, Fields
<1>4. Intact(m')
  BY <1>2, <1>3 DEF IntactInv, Intact, Shaped
<1> QED BY <1>1, <1>4 DEF IntactInv

LEMMA SetIntact ==
    ASSUME IntactInv, Set PROVE IntactInv'
<1>1. PICK s \in menu.settings : Step(Stored(m, s[1], s[2]))
  BY DEF Set
<1> DEFINE d == Stored(m, s[1], s[2])
<1>2. InvertsFit => "pwm_invert" \in Caps \/ s[1] # "spindle_invert" \/ "pwm" \notin s[2]
  BY DEF InvertsFit, IntactInv
<1>3. /\ Shaped(d) /\ Agrees(d.live) /\ Holds(d.n)
      /\ Follows(m) => Follows(d)
      /\ Saved(m) /\ ("pwm_invert" \in Caps \/ s[1] # "spindle_invert" \/ "pwm" \notin s[2]) => Saved(d)
  BY StoredStores DEF IntactInv, Intact
<1> HIDE DEF d
<1>4. m' = d /\ on' = on /\ menu' = menu
  BY <1>1 DEF Step, d
<1>5. Intact(m') /\ (Current(m) => Current(m'))
  BY <1>2, <1>3, <1>4 DEF Intact, Current
<1> QED BY <1>4, <1>5 DEF IntactInv

LEMMA WritesIntact ==
    ASSUME IntactInv, NEW values, DOMAIN values \subseteq Blocks \ {Global}, NEW d,
           DOMAIN d = Fields, d.n = Write(m.n, values),
           d.live = m.live, d.backup = m.backup, d.soft = m.soft, d.hard = m.hard, Step(d)
    PROVE  IntactInv'
<1>1. Beside(m, d)
  BY BesideWrite DEF IntactInv, Intact
<1>2. Intact(d) /\ (Current(m) => Current(d))
  BY <1>1, BesideIntact DEF IntactInv
<1> QED BY <1>2 DEF IntactInv, Step

LEMMA SetPluginIntact ==
    ASSUME IntactInv, SetPlugin PROVE IntactInv'
<1>1. PICK v \in Values : Step([m EXCEPT !.plugin = v, !.n = Write(m.n, One(Driver, v))])
  BY DEF SetPlugin
<1> DEFINE values == One(Driver, v)
           d == [m EXCEPT !.plugin = v, !.n = Write(m.n, values)]
<1>2. DOMAIN values \subseteq Blocks \ {Global}
  BY DEF One, Blocks, Driver, Global
<1>3. Step(d)
  BY <1>1
<1> HIDE DEF values
<1>4. /\ DOMAIN d = Fields /\ d.n = Write(m.n, values) /\ d.live = m.live /\ d.backup = m.backup
      /\ d.soft = m.soft /\ d.hard = m.hard
  BY DEF IntactInv, Intact, Shaped, Fields
<1> HIDE DEF d
<1> QED BY <1>2, <1>3, <1>4, WritesIntact

LEMMA WriteBlockIntact ==
    ASSUME BlocksApart, IntactInv, WriteBlock PROVE IntactInv'
<1>1. PICK b \in menu.blocks, v \in Values : Step([m EXCEPT !.n = Write(m.n, One(b, v))])
  BY DEF WriteBlock
<1> DEFINE values == One(b, v)
           d == [m EXCEPT !.n = Write(m.n, values)]
<1>2. DOMAIN values \subseteq Blocks \ {Global}
  BY DEF One, BlocksApart, IntactInv
<1>3. Step(d)
  BY <1>1
<1> HIDE DEF values
<1>4. /\ DOMAIN d = Fields /\ d.n = Write(m.n, values) /\ d.live = m.live /\ d.backup = m.backup
      /\ d.soft = m.soft /\ d.hard = m.hard
  BY DEF IntactInv, Intact, Shaped, Fields
<1> HIDE DEF d
<1> QED BY <1>2, <1>3, <1>4, WritesIntact

\* An override begins with the acceleration that the settings have, and ends with it.
LEMMA OverrideIntact ==
    ASSUME IntactInv, Override PROVE IntactInv'
<1> DEFINE ended == Persistent(m.live, m.backup)
           e == [m EXCEPT !.live = ended]
           backup == IF m.backup.valid THEN m.backup
                     ELSE [valid |-> TRUE, acceleration |-> m.live.acceleration]
           s(v) == [m.live EXCEPT !.acceleration = v]
           o(v) == [m EXCEPT !.backup = backup, !.live = s(v)]
<1>1. on /\ on' = on /\ menu' = menu /\ (m' = e \/ \E v : m' = o(v))
  <2>1. PICK v \in {0, 2} :
           Step(IF v = 0
                THEN [m EXCEPT !.live = Persistent(@, m.backup)]
                ELSE [m EXCEPT !.backup = IF @.valid THEN @ ELSE
                                 [valid |-> TRUE, acceleration |-> m.live.acceleration],
                               !.live.acceleration = v])
    BY DEF Override
  <2>2. [m EXCEPT !.backup = IF @.valid THEN @ ELSE [valid |-> TRUE, acceleration |-> m.live.acceleration],
                  !.live.acceleration = v] = o(v)
    BY DEF IntactInv, Intact, Shaped, Fields
  <2> HIDE DEF o
  <2> QED BY <2>1, <2>2 DEF Step, Override
<1>2. Agrees(m.live) /\ DOMAIN m = Fields /\ IsBuffer(m.n) /\ DOMAIN m.backup = {"valid", "acceleration"}
  BY DEF IntactInv, Intact, Shaped
<1>3. Agrees(ended) /\ Persistent(ended, m.backup) = ended
  BY <1>2, PersistentAgrees, PersistentTwice
<1>4. ended.soft = m.live.soft /\ ended.max_travel = m.live.max_travel /\ ended.hard = m.live.hard
  BY <1>2, PersistentFields, SettingsFields DEF Agrees
<1>5. /\ DOMAIN e = Fields /\ e.n = m.n /\ e.live = ended /\ e.backup = m.backup
      /\ e.soft = m.soft /\ e.hard = m.hard
  BY <1>2 DEF Fields
<1>6. CASE m' = e
  <2> HIDE DEF ended, e
  <2>1. Intact(m')
    BY <1>2, <1>3, <1>5, <1>6 DEF Intact, Shaped, IntactInv
  <2>2. Saved(m) => Saved(m')
    BY <1>3, <1>5, <1>6 DEF Saved, ended
  <2>3. Follows(m) => Follows(m')
    BY <1>4, <1>5, <1>6 DEF Follows, SoftLimits
  <2> QED BY <1>1, <2>1, <2>2, <2>3 DEF IntactInv, Current
<1>7. ASSUME NEW v, m' = o(v) PROVE IntactInv'
  <2> DEFINE live == s(v)
  <2>1. /\ DOMAIN live = DOMAIN m.live
        /\ \A f \in DOMAIN m.live \ {"acceleration"} : live[f] = m.live[f]
    OBVIOUS
  <2>2. Persistent(live, backup) = Persistent(m.live, m.backup)
    <3>1. CASE m.backup.valid
      BY <3>1 DEF Persistent
    <3>2. CASE ~m.backup.valid
      <4>1. Persistent(live, backup) = [m.live EXCEPT !.acceleration = m.live.acceleration]
        BY <3>2 DEF Persistent
      <4>2. Persistent(m.live, m.backup) = [m.live EXCEPT !.acceleration = m.live.acceleration]
        BY <3>2 DEF Persistent
      <4> QED BY <4>1, <4>2
    <3> QED BY <3>1, <3>2
  <2>3. DOMAIN backup = {"valid", "acceleration"}
    BY <1>2
  <2> HIDE DEF live, backup, s
  <2>4. /\ DOMAIN m' = Fields /\ m'.n = m.n /\ m'.live = live /\ m'.backup = backup
        /\ m'.soft = m.soft /\ m'.hard = m.hard
    BY <1>2, <1>7 DEF Fields, live
  <2>5. Agrees(live)
    BY <1>2, <2>1, SettingsFields DEF Agrees
  <2>6. live.soft = m.live.soft /\ live.max_travel = m.live.max_travel /\ live.hard = m.live.hard
    BY <1>2, <2>1, SettingsFields DEF Agrees
  <2>7. Intact(m')
    BY <1>2, <2>3, <2>4, <2>5 DEF Intact, Shaped, IntactInv
  <2>8. Saved(m) => Saved(m')
    BY <2>2, <2>4 DEF Saved
  <2>9. Follows(m) => Follows(m')
    BY <2>4, <2>6 DEF Follows, SoftLimits
  <2> QED BY <1>1, <2>7, <2>8, <2>9 DEF IntactInv, Current
<1> QED BY <1>1, <1>6, <1>7

\* The checks at the end of a file change the settings in use, not those that are stored.
LEMMA EndIntact ==
    ASSUME MaxRate \in Int, IntactInv, End PROVE IntactInv'
<1> DEFINE live == Sane(m.live)
           alarm == m.travelChanged /\ HomingRequired(m)
           changed == m.travelChanged /\ ~alarm
           raised == m.alarm \/ alarm
           e == [m EXCEPT !.live = live, !.travelChanged = changed, !.alarm = raised]
<1>1. m' = e /\ on' = on /\ menu' = menu
  BY DEF End
<1>2. Agrees(m.live) /\ Shaped(m)
  BY DEF IntactInv, Intact
<1>3. Agrees(live) /\ Sane(Persistent(live, m.backup)) = Sane(Persistent(m.live, m.backup))
  BY <1>2, SaneAgrees, SaneTwice
<1>4. live.soft = m.live.soft /\ live.max_travel = m.live.max_travel /\ live.hard = m.live.hard
  BY <1>2, SettingsFields DEF Sane, Agrees
<1> HIDE DEF live, alarm, changed, raised
<1>5. /\ DOMAIN m' = Fields /\ m'.n = m.n /\ m'.live = live /\ m'.backup = m.backup
      /\ m'.soft = m.soft /\ m'.hard = m.hard
  BY <1>1, <1>2 DEF Shaped, Fields
<1>6. Intact(m')
  BY <1>2, <1>3, <1>5 DEF Intact, Shaped, IntactInv
<1>7. Saved(m) => Saved(m')
  BY <1>3, <1>5 DEF Saved
<1>8. Follows(m) => Follows(m')
  BY <1>4, <1>5 DEF Follows, SoftLimits
<1> QED BY <1>1, <1>6, <1>7, <1>8 DEF IntactInv, Current

LEMMA ReadIntact ==
    ASSUME BlocksApart, IntactInv, Read PROVE IntactInv'
<1>1. PICK b \in menu.blocks, failed \in SUBSET Unreliable : Step(ReadBlock(m, b, failed))
  BY DEF Read
<1>2. b \in Blocks \ {Global}
  BY DEF BlocksApart, IntactInv
<1>3. Beside(m, ReadBlock(m, b, failed))
  BY <1>2, ReadBlockStores DEF IntactInv, Intact
<1>4. Intact(ReadBlock(m, b, failed)) /\ (Current(m) => Current(ReadBlock(m, b, failed)))
  BY <1>3, BesideIntact DEF IntactInv
<1> QED BY <1>1, <1>4 DEF IntactInv, Step

LEMMA RestoreIntact ==
    ASSUME IntactInv, Restore PROVE IntactInv'
<1>1. PICK what \in menu.restores, failed \in SUBSET Unreliable :
         Step(Reset(Synced(Restored(m, what), failed)))
  BY DEF Restore
<1> DEFINE d == Synced(Restored(m, what), failed)
<1>2. /\ Shaped(d) /\ Agrees(d.live) /\ Holds(d.n)
      /\ Saved(m) \/ "defaults" \in what => Saved(d)
      /\ "defaults" \notin what => Beside(m, d)
  BY RestoringStores DEF IntactInv, Intact
<1> HIDE DEF d
<1>3. "defaults" \notin what => (Follows(m) => Follows(d))
  BY <1>2, BesideKeeps
<1>4. NoDefaults => "defaults" \notin what
  BY DEF NoDefaults, IntactInv
<1>5. Intact(d) /\ (Current(m) => Current(d))
  BY <1>2, <1>3, <1>4 DEF Intact, Current
<1>6. Beside(d, Reset(d))
  BY <1>2, ResetStores
<1>7. Intact(Reset(d)) /\ (Current(d) => Current(Reset(d)))
  BY <1>5, <1>6, BesideIntact
<1>8. Step(Reset(d))
  BY <1>1 DEF d
<1> QED BY <1>5, <1>7, <1>8 DEF IntactInv, Step

LEMMA SyncIntact ==
    ASSUME IntactInv, Sync PROVE IntactInv'
<1>1. PICK failed \in SUBSET Unreliable : Step(Synced(m, failed))
  BY DEF Sync
<1>2. Beside(m, Synced(m, failed))
  BY SyncedBeside DEF IntactInv, Intact
<1>3. Intact(Synced(m, failed)) /\ (Current(m) => Current(Synced(m, failed)))
  BY <1>2, BesideIntact DEF IntactInv
<1> QED BY <1>1, <1>3 DEF IntactInv, Step

LEMMA HomeIntact ==
    ASSUME IntactInv, Home PROVE IntactInv'
<1> DEFINE d == [m EXCEPT !.homed = TRUE, !.alarm = FALSE]
<1>1. Step(d)
  BY DEF Home
<1>2. Shaped(m)
  BY DEF IntactInv, Intact
<1>3. /\ DOMAIN d = Fields /\ d.n = m.n /\ d.live = m.live /\ d.backup = m.backup
      /\ d.soft = m.soft /\ d.hard = m.hard
  BY <1>2 DEF Shaped, Fields
<1> HIDE DEF d
<1>4. Beside(m, d)
  BY <1>2, <1>3 DEF Beside, Shaped, Cell
<1>5. Intact(d) /\ (Current(m) => Current(d))
  BY <1>4, BesideIntact DEF IntactInv
<1> QED BY <1>1, <1>5 DEF IntactInv, Step

LEMMA PowerFailIntact ==
    ASSUME IntactInv, PowerFail PROVE IntactInv'
<1>1. Shaped(m) /\ Agrees(m.live) /\ Holds(m.n)
  BY DEF IntactInv, Intact
<1>2. ASSUME NEW what PROVE IsBuffer(Restored(m, what).n) /\ Holds(Restored(m, what).n)
  <2> DEFINE r == Restored(m, what)
  <2>1. /\ Shaped(r) /\ r.n.phys = m.n.phys
        /\ "defaults" \notin what => Beside(m, r)
        /\ "defaults" \in what => Agrees(r.live) /\ Saved(r) /\ r.n.ram[Global] = r.live
    BY <1>1, RestoredStores
  <2> HIDE DEF r
  <2>2. CASE "defaults" \in what
    BY <1>1, <2>1, <2>2 DEF Shaped, Holds, Cell, r
  <2>3. CASE "defaults" \notin what
    BY <1>1, <2>1, <2>3, BesideKeeps DEF Shaped, r
  <2> QED BY <2>2, <2>3
<1>3. \A n, b : IsBuffer(n) /\ Holds(n) /\ Off(Interrupted(n, b)) => IntactInv'
  BY InterruptedHolds, OffIntact
<1>4. CASE \E b \in m.n.dirty : Off(Interrupted(m.n, b))
  BY <1>1, <1>3, <1>4 DEF Shaped
<1>5. CASE \E what \in menu.restores :
             LET n == Restored(m, what).n IN \E b \in n.dirty : Off(Interrupted(n, b))
  <2>1. PICK what \in menu.restores : \E b : Off(Interrupted(Restored(m, what).n, b))
    BY <1>5
  <2> QED BY <1>2, <1>3, <2>1
<1> QED BY <1>4, <1>5 DEF PowerFail

LEMMA PowerOnIntact ==
    ASSUME MaxRate \in Int, IntactInv, PowerOn PROVE IntactInv'
<1>1. PICK failed : m' = Started(m.n, failed)
  BY DEF PowerOn
<1>2. IsBuffer(m.n) /\ Holds(m.n) /\ menu' = menu
  BY DEF IntactInv, Intact, Shaped, PowerOn
<1>3. LET d == Started(m.n, failed) IN Shaped(d) /\ Agrees(d.live) /\ Holds(d.n) /\ Saved(d) /\ Follows(d)
  BY <1>2, StartedStores
<1> QED BY <1>1, <1>2, <1>3 DEF IntactInv, Intact, Current

LEMMA AlwaysIntact ==
    ASSUME BlocksApart, MaxRate \in Int, IntactInv, [Next]_vars PROVE IntactInv'
<1>1. CASE Set  BY <1>1, SetIntact
<1>2. CASE SetPlugin  BY <1>2, SetPluginIntact
<1>3. CASE Override  BY <1>3, OverrideIntact
<1>4. CASE WriteBlock  BY <1>4, WriteBlockIntact
<1>5. CASE Read  BY <1>5, ReadIntact
<1>6. CASE Restore  BY <1>6, RestoreIntact
<1>7. CASE Sync  BY <1>7, SyncIntact
<1>8. CASE Home  BY <1>8, HomeIntact
<1>9. CASE Start  BY <1>9 DEF Start, IntactInv
<1>10. CASE End  BY <1>10, EndIntact
<1>11. CASE PowerOff
  <2>1. DOMAIN m.n.phys = Blocks /\ (m.n.phys[Global] = Torn \/ Agrees(m.n.phys[Global]))
    BY DEF IntactInv, Intact, Shaped, IsBuffer, Holds, Cell
  <2> QED BY <1>11, <2>1, OffIntact DEF PowerOff
<1>12. CASE PowerFail  BY <1>12, PowerFailIntact
<1>13. CASE PowerOn  BY <1>13, PowerOnIntact
<1>14. CASE UNCHANGED vars  BY <1>14 DEF vars, IntactInv
<1> QED BY <1>1, <1>2, <1>3, <1>4, <1>5, <1>6, <1>7, <1>8, <1>9, <1>10, <1>11, <1>12, <1>13, <1>14
        DEF Next

\* The stored settings are those in use (settings_write_global after every change), but for
\* overrides and the checks at the end of a file: with a driver that can invert PWM, or with menus
\* that do not ask it to.  Physical writes may fail: what is stored is read from RAM.
THEOREM SettingsAreSaved ==
    ASSUME BlocksApart, ForeignAgrees, InvertsFit, MaxRate \in Int
    PROVE  Spec => []SavedIsLive
<1>1. Init => IntactInv
  BY StartsIntact
<1>2. IntactInv /\ [Next]_vars => IntactInv'
  BY AlwaysIntact
<1>3. IntactInv => SavedIsLive
  BY DEF IntactInv, Current, Saved, SavedIsLive
<1> QED BY <1>1, <1>2, <1>3, PTL DEF Spec

\* Settings that depend on each other agree, in whichever order they are set, refused, stored,
\* restored, overridden and read again: soft limits need homing, axes home at one rate unless each
\* has its own, and the limits in use are those of the settings, if the defaults are never restored.
THEOREM SettingsAlwaysAgree ==
    ASSUME BlocksApart, ForeignAgrees, NoDefaults, MaxRate \in Int
    PROVE  Spec => []SettingsAgree
<1>1. Init => IntactInv
  BY StartsIntact
<1>2. IntactInv /\ [Next]_vars => IntactInv'
  BY AlwaysIntact
<1>3. IntactInv => SettingsAgree
  BY DEF IntactInv, Intact, Current, Agrees, Follows, SettingsAgree, SoftNeedsHoming,
         OneHomingRate, LimitsFollow
<1> QED BY <1>1, <1>2, <1>3, PTL DEF Spec

\* A restart loses only what was torn (nvs_buffer_init, settings_init): if the version and the
\* settings can be read, every other block that can be read is kept, and the settings are those
\* stored, mended.
THEOREM RestartsKeep ==
    ASSUME BlocksApart, ForeignAgrees, MaxRate \in Int, Storage # "None", Torn # "now"
    PROVE  Spec => OnlyTornIsLost
<1>1. Init => IntactInv
  BY StartsIntact
<1>2. IntactInv /\ [Next]_vars => IntactInv'
  BY AlwaysIntact
<1>3. ASSUME IntactInv, [Next]_vars, on', ~on, m.n.phys[Version] = "now", m.n.phys[Global] # Torn
      PROVE  /\ \A b \in Blocks \ {Global} : m.n.phys[b] # Torn => m'.n.ram[b] = m.n.phys[b]
             /\ m'.live = [Sane(m.n.phys[Global]) EXCEPT !.build = "this"]
  <2>1. PowerOn
    BY <1>3 DEF Next, vars, Set, SetPlugin, Override, WriteBlock, Read, Restore, Sync, Home, Start,
                End, PowerOff, PowerFail
  <2>2. PICK failed : m' = Started(m.n, failed)
    BY <2>1 DEF PowerOn
  <2>3. IsBuffer(m.n) /\ Holds(m.n)
    BY <1>3 DEF IntactInv, Intact, Shaped
  <2> QED BY <1>3, <2>2, <2>3, StartedStores
<1> QED BY <1>1, <1>2, <1>3, PTL DEF Spec, OnlyTornIsLost

-----------------------------------------------------------------------------
(* The virtual file system *)

Names == STRING
Path == Seq(Names)
Dirs == FS \cup {"/"}

MountInv ==
    /\ rootfs \in AtRoot \cup {Null}
    /\ place \in [FS -> Nat] /\ mounts \in Nat
    /\ \A f \in FS : place[f] > 0 => f \notin AtRoot /\ place[f] <= mounts
    /\ \A f, g \in Mounted : place[f] = place[g] => f = g

\* u is the mount of the path p.
Leads(p, u) ==
    \/ u = "/" /\ \A f \in Mounted : ~Below(p, Where[f])
    \/ u \in Mounted /\ Below(p, Where[u])

MountsLead ==
    \A p \in Path : /\ Leads(p, GetMount(p))
                    /\ \A u : Leads(p, u) => GetMount(p) = u

-----------------------------------------------------------------------------
(* Paths *)

LEMMA PathFact ==
    ASSUME NEW p \in Path
    PROVE  /\ Len(p) \in Nat
           /\ p = Root <=> Len(p) = 0
           /\ p # Root => Len(p) >= 1 /\ p[1] \in Names
  <1>1. Len(p) \in Nat /\ (p # << >> => Len(p) \in Nat \ {0}) /\ Len(<< >>) = 0
    BY EmptySeq, LenProperties DEF Path
  <1>2. \A i \in 1..Len(p) : p[i] \in Names
    BY ElementOfSeq DEF Path
  <1> QED
    BY <1>1, <1>2 DEF Root

LEMMA SplitFact ==
    ASSUME NEW p \in Path, NEW k \in 0..Len(p)
    PROVE  /\ SubSeq(p, 1, k) \in Path /\ Len(SubSeq(p, 1, k)) = k
           /\ k > 0 => SubSeq(p, 1, k)[1] = p[1]
           /\ SubSeq(p, 1, k) \o SubSeq(p, k + 1, Len(p)) = p
  <1>1. Len(p) \in Nat /\ \A i \in 1..Len(p) : p[i] \in Names
    BY ElementOfSeq, LenProperties DEF Path
  <1>2. \A i \in 1..k : p[i] \in Names
    BY <1>1
  <1>3. /\ SubSeq(p, 1, k) \in Seq(Names)
        /\ Len(SubSeq(p, 1, k)) = IF 1 <= k THEN k - 1 + 1 ELSE 0
        /\ \A i \in 1..k - 1 + 1 : SubSeq(p, 1, k)[i] = p[1 + i - 1]
    BY <1>1, <1>2, SubSeqProperties
  <1>4. SubSeq(p, 1, Len(p)) = p
    BY SubSeqFull DEF Path
  <1>5. /\ 1 \in 1..Len(p) + 1 /\ k \in 1 - 1..Len(p) /\ Len(p) \in k..Len(p)
    BY <1>1
  <1>6. SubSeq(p, 1, k) \o SubSeq(p, k + 1, Len(p)) = SubSeq(p, 1, Len(p))
    BY <1>5, ConcatAdjacentSubSeq DEF Path
  <1>7. k - 1 + 1 = k /\ (~(1 <= k) => k = 0)
    BY <1>1
  <1>8. Len(SubSeq(p, 1, k)) = k
    BY <1>3, <1>7, Zenon
  <1>9. k > 0 => SubSeq(p, 1, k)[1] = p[1]
    <2>1. k > 0 => 1 \in 1..k - 1 + 1
      BY <1>7
    <2>2. k > 0 => SubSeq(p, 1, k)[1] = p[1 + 1 - 1]
      BY <1>3, <2>1, Zenon
    <2> QED
      BY <2>2
  <1>10. SubSeq(p, 1, k) \in Path
    BY <1>3 DEF Path
  <1> QED
    BY <1>4, <1>6, <1>8, <1>9, <1>10, Zenon

LEMMA IntoFact ==
    ASSUME NEW P \in Path, NEW a \in Path, NEW n \in Names
    PROVE  /\ Append(P \o a, n) = P \o Append(a, n) /\ P \o a \in Path
           /\ Append(a, n) \in Path /\ Append(a, n) # Root
           /\ a # Root => Append(a, n)[1] = a[1]
  <1>1. /\ Append(a, n) \in Path /\ Append(a, n) # << >>
        /\ \A i \in 1..Len(a) : Append(a, n)[i] = a[i]
    BY AppendProperties DEF Path
  <1>2. a # Root => 1 \in 1..Len(a)
    BY PathFact
  <1>3. P \o a \in Path /\ <<n>> \in Path
    <2>1. P \o a \in Path
      BY ConcatProperties, Zenon DEF Path
    <2>2. <<n>> \in Path
      BY DEF Path
    <2> QED
      BY <2>1, <2>2
  <1>4. Append(a, n) = a \o <<n>> /\ Append(P \o a, n) = (P \o a) \o <<n>>
    BY <1>3, AppendIsConcat DEF Path
  <1>5. (P \o a) \o <<n>> = P \o (a \o <<n>>)
    BY <1>3, ConcatAssociative DEF Path
  <1> QED
    BY <1>1, <1>2, <1>3, <1>4, <1>5 DEF Root

LEMMA UpFact ==
    ASSUME NEW P \in Path, NEW a \in Path, a # Root
    PROVE  /\ Up(P \o a) = P \o Up(a) /\ Up(a) \in Path
           /\ Len(a) > 1 => Up(a) # Root /\ Up(a)[1] = a[1]
  <1> DEFINE k == Len(a) - 1
             l == Len(P)
             s == P \o a
  <1>1. Len(a) \in Nat /\ Len(a) >= 1 /\ l \in Nat /\ k \in 0..Len(a)
    BY PathFact
  <1>2. /\ s \in Path /\ Len(s) = l + Len(a)
        /\ \A i \in 1..l + Len(a) : s[i] = IF i <= l THEN P[i] ELSE a[i - l]
    BY ConcatProperties DEF Path
  <1>3. Up(a) = SubSeq(a, 1, k)
    BY DEF Up
  <1>4. Up(a) \in Path /\ Len(Up(a)) = k /\ (k > 0 => Up(a)[1] = a[1])
    <2>1. /\ SubSeq(a, 1, k) \in Path /\ Len(SubSeq(a, 1, k)) = k
          /\ k > 0 => SubSeq(a, 1, k)[1] = a[1]
      <3> HIDE DEF k
      <3> QED
        BY <1>1, SplitFact, Zenon
    <2> HIDE DEF k
    <2> QED
      BY <1>3, <2>1, Zenon
  <1>5. s # Root /\ l + k \in 0..Len(s)
    <2>1. PICK n \in Nat : n = Len(a)
      BY <1>1
    <2>2. n >= 1 /\ Len(s) = l + n /\ k = n - 1
      BY <1>1, <1>2, <2>1
    <2>3. l + n # 0 /\ l + (n - 1) \in 0..l + n
      BY <1>1, <2>2
    <2> HIDE DEF s, k
    <2> QED
      BY <1>2, <2>2, <2>3, PathFact, Zenon
  <1>6. Up(s) = SubSeq(s, 1, l + k)
    BY <1>1, <1>2, <1>5 DEF Up
  <1>7. Up(s) \in Path /\ Len(Up(s)) = l + k
    <2> HIDE DEF s, k, l
    <2> QED
      BY <1>2, <1>5, <1>6, SplitFact, Zenon
  <1>8. \A i \in 1..l + k : Up(s)[i] = s[i]
    BY <1>1, <1>2, <1>6 DEF Path
  <1>9. \A i \in 1..k : Up(a)[i] = a[i]
    BY <1>1, <1>3 DEF Path
  <1>10. /\ P \o Up(a) \in Path /\ Len(P \o Up(a)) = l + k
         /\ \A i \in 1..l + k : (P \o Up(a))[i] = IF i <= l THEN P[i] ELSE Up(a)[i - l]
    BY <1>4, ConcatProperties DEF Path
  <1>11. \A i \in 1..l + k : Up(s)[i] = (P \o Up(a))[i]
    <2> HIDE DEF s
    <2> TAKE i \in 1..l + k
    <2>1. Up(s)[i] = IF i <= l THEN P[i] ELSE a[i - l]
      BY <1>1, <1>2, <1>8
    <2>2. i > l => Up(a)[i - l] = a[i - l]
      BY <1>1, <1>9
    <2> QED
      BY <1>1, <1>10, <2>1, <2>2
  <1>12. Up(s) = P \o Up(a)
    BY <1>7, <1>10, <1>11, SeqEqual DEF Path
  <1>13. Len(a) > 1 => Up(a) # Root
    BY <1>1, <1>4, PathFact
  <1> QED
    BY <1>1, <1>4, <1>12, <1>13

-----------------------------------------------------------------------------
(* Mounts *)

\* A set of mounts has one that comes first.
LEMMA FirstFact ==
    ASSUME place \in [FS -> Nat], NEW list, list \subseteq Dirs
    PROVE  /\ list = {} => FirstOf(list) = Nobody
           /\ list # {} => /\ FirstOf(list) \in list /\ FirstOf(list) # Nobody
                           /\ \A g \in list : PlaceOf(FirstOf(list)) <= PlaceOf(g)
  <1>1. \A u \in Dirs : PlaceOf(u) \in Nat
    BY DEF PlaceOf, Dirs
  <1>2. Nobody \notin Dirs
    BY VfsAssumption DEF Dirs, Nobody
  <1>3. ASSUME list # {} PROVE \E f \in list : \A g \in list : PlaceOf(f) <= PlaceOf(g)
    <2> DEFINE T == {PlaceOf(u) : u \in list}
    <2>1. T \subseteq Nat /\ T # {}
      BY <1>1, <1>3
    <2>2. \E x \in T : \A y \in T : ~(<<y, x>> \in OpToRel(<, Nat))
      <3> HIDE DEF T
      <3> QED
        BY <2>1, NatLessThanWellFounded, WFMin, Zenon
    <2>3. PICK x \in T : \A y \in T : ~(<<y, x>> \in OpToRel(<, Nat))
      BY <2>2
    <2>4. \A y \in T : ~(y < x)
      <3> HIDE DEF T
      <3> QED
        BY <2>1, <2>3 DEF OpToRel
    <2>5. PICK f \in list : PlaceOf(f) = x
      OBVIOUS
    <2>6. ASSUME NEW g \in list PROVE PlaceOf(f) <= PlaceOf(g)
      <3>1. PlaceOf(g) \in T /\ PlaceOf(g) \in Nat /\ x \in Nat
        BY <1>1, <2>1
      <3>2. ~(PlaceOf(g) < x)
        <4> HIDE DEF T
        <4> QED
          BY <2>4, <3>1, Zenon
      <3> QED
        BY <2>5, <3>1, <3>2
    <2> QED
      BY <2>6
  <1>4. ASSUME list # {} PROVE FirstOf(list) \in list /\ \A g \in list : PlaceOf(FirstOf(list)) <= PlaceOf(g)
    BY <1>3, <1>4 DEF FirstOf
  <1> QED
    BY <1>2, <1>4 DEF FirstOf

LEMMA BelowFact ==
    ASSUME NEW p \in Path, NEW f \in FS, f \notin AtRoot
    PROVE  /\ Where[f] \in Path /\ Len(Where[f]) = 1
           /\ Below(p, Where[f]) <=> p # Root /\ p[1] = Where[f][1]
  <1>1. Where[f] \in Path /\ Len(Where[f]) <= 1 /\ Where[f] # Root
    BY VfsAssumption DEF Path, Names, AtRoot
  <1>2. Len(Where[f]) = 1
    <2>1. PICK n \in Nat : n = Len(Where[f])
      BY <1>1, PathFact, Zenon
    <2>2. n <= 1 /\ n # 0
      BY <1>1, <2>1, PathFact, Zenon
    <2>3. n = 1
      BY <2>2
    <2> QED
      BY <2>1, <2>3
  <1>3. CASE p = Root
    <2>1. Len(p) = 0
      BY <1>3, PathFact, Zenon
    <2>2. ~(1 <= 0)
      OBVIOUS
    <2>3. ~(Len(Where[f]) <= Len(p))
      BY <1>2, <2>1, <2>2, Zenon
    <2> QED
      BY <1>1, <1>2, <1>3, <2>3, Zenon DEF Below
  <1>4. CASE p # Root
    <2>1. Len(p) \in Nat /\ Len(p) >= 1
      BY <1>4, PathFact
    <2>2. SubSeq(p, 1, 1) \in Path /\ Len(SubSeq(p, 1, 1)) = 1 /\ SubSeq(p, 1, 1)[1] = p[1]
      <3>1. 1 \in 0..Len(p) /\ 1 > 0
        BY <2>1
      <3> QED
        BY <3>1, SplitFact, Zenon
    <2>3. ASSUME p[1] = Where[f][1] PROVE SubSeq(p, 1, 1) = Where[f]
      <3>1. Len(SubSeq(p, 1, 1)) = Len(Where[f]) /\ \A i \in 1..Len(SubSeq(p, 1, 1)) : SubSeq(p, 1, 1)[i] = Where[f][i]
        BY <1>2, <2>2, <2>3
      <3> QED
        BY <1>1, <2>2, <3>1, SeqEqual DEF Path
    <2>4. Below(p, Where[f]) <=> SubSeq(p, 1, 1) = Where[f]
      BY <1>2, <2>1 DEF Below
    <2> QED
      BY <1>1, <1>2, <1>4, <2>2, <2>3, <2>4
  <1> QED
    BY <1>1, <1>2, <1>3, <1>4

LEMMA SameWhere ==
    ASSUME NEW f \in FS, NEW g \in FS, f \notin AtRoot, g \notin AtRoot, Where[f][1] = Where[g][1]
    PROVE  f = g
  <1>1. Root \in Path
    BY EmptySeq DEF Path, Root
  <1>2. Where[f] \in Path /\ Where[g] \in Path /\ Len(Where[f]) = 1 /\ Len(Where[g]) = 1
    BY <1>1, BelowFact
  <1>3. \A i \in 1..Len(Where[f]) : Where[f][i] = Where[g][i]
    BY <1>2
  <1>4. Where[f] = Where[g]
    BY <1>2, <1>3, SeqEqual DEF Path
  <1> QED
    BY <1>4, VfsAssumption

\* get_mount
LEMMA MountFact == MountInv => MountsLead
  <1> SUFFICES ASSUME MountInv, NEW p \in Path
               PROVE  Leads(p, GetMount(p)) /\ \A u : Leads(p, u) => GetMount(p) = u
    BY DEF MountsLead
  <1> DEFINE there == {f \in Mounted : Where[f] = p}
             above == {f \in Mounted : Below(p, Where[f])}
  <1>1. \A f \in Mounted : f \in FS /\ f \notin AtRoot
    BY DEF MountInv, Mounted
  <1>2. \A f, g \in above : f = g
    BY <1>1, BelowFact, SameWhere
  <1>3. p = Root => above = {}
    BY <1>1, BelowFact
  <1>4. there \subseteq above
    <2>1. ASSUME NEW f \in there PROVE f \in above
      <3>1. Where[f] \in Path /\ Len(Where[f]) \in Nat /\ Where[f] = p
        BY <1>1, BelowFact
      <3>2. SubSeq(p, 1, Len(p)) = p
        BY SubSeqFull DEF Path
      <3> QED
        BY <3>1, <3>2 DEF Below
    <2> QED
      BY <2>1
  <1>5. "/" \notin Mounted
    BY <1>1, VfsAssumption
  <1>6. CASE above = {}
    <2>1. GetMount(p) = "/"
      BY <1>6 DEF GetMount
    <2> QED
      BY <1>5, <1>6, <2>1 DEF Leads
  <1>7. CASE above # {}
    <2>1. PICK f \in above : above = {f}
      BY <1>2, <1>7
    <2>2. there = {} \/ there = {f}
      BY <1>4, <2>1
    <2>3. FirstOf({f}) = f
      <3>1. place \in [FS -> Nat] /\ {f} \subseteq Dirs
        BY <1>1 DEF MountInv, Dirs
      <3> QED
        BY <3>1, FirstFact
    <2>4. GetMount(p) = f
      BY <1>3, <1>7, <2>1, <2>2, <2>3 DEF GetMount
    <2>5. Leads(p, f)
      BY <2>1 DEF Leads
    <2>6. \A u : Leads(p, u) => u = f
      BY <1>5, <2>1 DEF Leads
    <2> QED
      BY <2>4, <2>5, <2>6
  <1> QED
    BY <1>6, <1>7

LEMMA MountFactNext == MountInv' => MountsLead'
  BY MountFact, PTL

LEMMA PathsFact ==
    /\ \A p \in FullPaths \cup Relative : p \in Path
    /\ \A p \in Relative : Len(p) = 1 /\ p[1] \in Names
    /\ \A f \in FS : Where[f] \in Path
    /\ Root \in Path
  <1>1. \A f \in FS : Where[f] \in Path
    BY VfsAssumption DEF Path, Names
  <1>2. \A n \in FileNames \cup Devices : <<n>> \in Path /\ Len(<<n>>) = 1 /\ <<n>>[1] \in Names
    BY VfsAssumption DEF Path, Names
  <1>3. Root \in Path
    BY EmptySeq DEF Root, Path
  <1>4. DevFS \in FS
    BY VfsAssumption
  <1>5. \A p, q \in Path : p \o q \in Path
    BY ConcatProperties DEF Path
  <1>6. \A p \in FullPaths : p \in Path
    <2> DEFINE A == {Where[f] : f \in FS}
               N == FileNames \ {".."}
               Cat(f, n) == Where[f] \o <<n>>
               B == {Cat(f, n) : f \in FS, n \in N}
               C == {Where[DevFS] \o <<d>> : d \in Devices}
    <2>1. A \subseteq Path
      BY <1>1
    <2>2. B \subseteq Path
      <3>1. \A f \in FS, n \in N : Cat(f, n) \in Path
        BY <1>1, <1>2, <1>5
      <3> HIDE DEF N, Cat
      <3> QED
        BY <3>1
    <2>3. C \subseteq Path
      BY <1>1, <1>2, <1>4, <1>5
    <2>4. FullPaths = {Root} \cup A \cup B \cup C
      BY DEF FullPaths
    <2> HIDE DEF A, B, C
    <2> QED
      BY <1>3, <2>1, <2>2, <2>3, <2>4
  <1>7. \A p \in Relative : p \in Path /\ Len(p) = 1 /\ p[1] \in Names
    BY <1>2 DEF Relative
  <1> QED
    BY <1>1, <1>3, <1>6, <1>7

LEMMA RoutedFact == MountInv => Routed
  <1> SUFFICES ASSUME MountInv, NEW p \in FullPaths
               PROVE  LET u == GetMount(p)
                      IN /\ u = "/" \/ u \in Mounted
                         /\ PathOf(u) \o GetFilename(u, p, FALSE) = p
                         /\ \A f \in Mounted : Below(p, Where[f]) => u = f
    BY DEF Routed
  <1> DEFINE u == GetMount(p)
  <1>1. p \in Path
    BY PathsFact
  <1>2. Leads(p, u) /\ \A f : Leads(p, f) => u = f
    BY <1>1, MountFact DEF MountsLead
  <1>3. \A f \in Mounted : Below(p, Where[f]) => u = f
    BY <1>2 DEF Leads
  <1>4. PathOf(u) \o GetFilename(u, p, FALSE) = p
    <2> HIDE DEF u
    <2>1. PathOf(u) = SubSeq(p, 1, Len(PathOf(u))) /\ Len(PathOf(u)) \in 0..Len(p)
      <3>1. CASE u = "/"
        <4>1. SubSeq(p, 1, 0) = << >> /\ Len(Root) = 0 /\ Len(p) \in Nat
          BY <1>1, SubSeqEmpty, PathFact DEF Root
        <4> QED
          BY <3>1, <4>1 DEF PathOf, Root
      <3>2. CASE u \in Mounted /\ Below(p, Where[u])
        <4>1. u # "/" /\ Where[u] \in Path /\ PathOf(u) = Where[u]
          BY <3>2, VfsAssumption, PathsFact DEF Mounted, PathOf
        <4>2. Len(p) \in Nat /\ Len(Where[u]) \in Nat
          BY <1>1, <4>1, PathFact
        <4> QED
          BY <3>2, <4>1, <4>2 DEF Below
      <3> QED
        BY <1>2, <3>1, <3>2 DEF Leads
    <2>2. GetFilename(u, p, FALSE) = SubSeq(p, Len(PathOf(u)) + 1, Len(p))
      BY DEF GetFilename
    <2>3. PICK k \in 0..Len(p) : k = Len(PathOf(u))
      BY <2>1
    <2>4. SubSeq(p, 1, k) \o SubSeq(p, k + 1, Len(p)) = p
      BY <1>1, SplitFact
    <2> QED
      BY <2>1, <2>2, <2>3, <2>4
  <1> QED
    BY <1>2, <1>3, <1>4 DEF Leads

-----------------------------------------------------------------------------
(* The inductive invariant *)

\* The current directory of the virtual file system, and that of the one it is on.
DirInv ==
    /\ cwd \in Path /\ at \in [FS -> Path]
    /\ SameDirectory
    /\ cwdmount = "/" /\ rootfs = Null => cwd = Root

\* What is left to be listed, and has not been told.
ListInv ==
    /\ listing \in [open : BOOLEAN, fs : FS \cup {Null}, own : {Nobody}, left : SUBSET FS, due : SUBSET FS,
                    told : [FS -> Nat], over : BOOLEAN]
    /\ listing.left \subseteq listing.due
    /\ \A f \in FS : listing.told[f] = IF f \in listing.due \ listing.left THEN 1 ELSE 0
    /\ listing.over => listing.left = {}

\* The drives already told lie before the one the enumeration is at, those it has to tell
\* not before it.
DrivesType ==
    drives \in [open : BOOLEAN, at : Dirs \cup {Nobody}, hiddenToo : BOOLEAN, due : SUBSET Dirs, told : [Dirs -> Nat]]
Here == Mounted \cup {"/"}
Shown(u) == ~IsHidden(u) \/ drives.hiddenToo
AtDrive == drives.at # Nobody => drives.at \in Here /\ Shown(drives.at)
ToldDrives ==
    \A u \in Dirs : /\ drives.told[u] <= 1
                    /\ drives.told[u] > 0 => /\ u \in Here /\ Shown(u)
                                             /\ drives.at # Nobody => PlaceOf(u) < PlaceOf(drives.at)
DueDrives ==
    \A u \in drives.due : /\ u \in Here /\ IsDrive(u)
                          /\ \/ drives.told[u] = 1
                             \/ drives.at # Nobody /\ PlaceOf(drives.at) <= PlaceOf(u)
DriveInv == DrivesType /\ (drives.open => AtDrive /\ ToldDrives /\ DueDrives)

FilesType ==
    /\ \A file \in files : file.fs \in FS /\ file.update \in BOOLEAN /\ file.writes \in BOOLEAN
    /\ stale \subseteq FS
    /\ devices \in [Devices -> [claimed : BOOLEAN, claims : Nat, open : BOOLEAN]]
WritesTold == \A file \in files : file.writes /\ file.fs \notin Hidden => file.update
ClaimedOnce == \A d \in Devices : devices[d].claims = IF devices[d].claimed THEN 1 ELSE 0
FileInv == FilesType /\ WritesTold /\ ClaimedOnce /\ ChangesAnnounced /\ DevicesOwned

VfsInv == MountInv /\ DirInv /\ ListInv /\ DriveInv /\ FileInv

LEMMA InvIsSound == VfsInv => VfsSound
  <1> SUFFICES ASSUME VfsInv PROVE VfsSound
    OBVIOUS
  <1>1. Routed
    BY RoutedFact DEF VfsInv
  <1>2. SameDirectory
    BY DEF VfsInv, DirInv
  <1>3. ChangesAnnounced /\ DevicesOwned
    BY DEF VfsInv, FileInv
  <1>4. ASSUME listing.open
        PROVE  /\ \A f \in FS : listing.told[f] <= 1
               /\ listing.over => listing.due = {f \in FS : listing.told[f] = 1}
    <2>1. ListInv
      BY DEF VfsInv
    <2>2. \A f \in FS : listing.told[f] = 0 \/ listing.told[f] = 1
      BY <2>1 DEF ListInv
    <2>3. \A f \in FS : listing.told[f] <= 1
      BY <2>2
    <2>4. ASSUME listing.over PROVE listing.due = {f \in FS : listing.told[f] = 1}
      <3>1. listing.due \subseteq FS /\ listing.left = {}
        BY <2>1, <2>4 DEF ListInv
      <3>2. \A f \in FS : listing.told[f] = 1 <=> f \in listing.due
        BY <2>1, <3>1 DEF ListInv
      <3> QED
        BY <3>1, <3>2
    <2> QED
      BY <2>3, <2>4
  <1>5. ASSUME drives.open
        PROVE  /\ \A u \in Dirs : drives.told[u] <= 1
               /\ drives.at = Nobody => \A u \in drives.due : drives.told[u] = 1
               /\ \A u \in Dirs : drives.told[u] > 0 => ~IsHidden(u) \/ drives.hiddenToo
    <2>1. ToldDrives /\ DueDrives
      BY <1>5 DEF VfsInv, DriveInv
    <2> QED
      BY <2>1 DEF ToldDrives, DueDrives, Shown
  <1>6. ListedOnce
    BY <1>4, <1>5 DEF ListedOnce, Dirs
  <1> QED
    BY <1>1, <1>2, <1>3, <1>6 DEF VfsSound

-----------------------------------------------------------------------------
(* What an action leaves alone *)

LEMMA MountsKept == MountInv /\ UNCHANGED mountVars => MountInv'
  BY DEF MountInv, Mounted, mountVars

LEMMA DirKept == DirInv /\ UNCHANGED <<mountVars, cwdVars, at>> => DirInv'
  <1> SUFFICES ASSUME DirInv, UNCHANGED <<mountVars, cwdVars, at>> PROVE DirInv'
    OBVIOUS
  <1>1. rootfs' = rootfs /\ place' = place /\ cwd' = cwd /\ cwdmount' = cwdmount /\ at' = at
    BY DEF mountVars, cwdVars
  <1>2. GetMount(cwd)' = GetMount(cwd)
    BY <1>1 DEF GetMount, Mounted, FirstOf, PlaceOf
  <1>3. FsOf(cwdmount)' = FsOf(cwdmount) /\ PathOf(cwdmount)' = PathOf(cwdmount)
    BY <1>1 DEF FsOf, PathOf
  <1> QED
    BY <1>1, <1>2, <1>3 DEF DirInv, SameDirectory

LEMMA ListKept == ListInv /\ UNCHANGED listing => ListInv'
  BY DEF ListInv

LEMMA DriveKept == DriveInv /\ UNCHANGED <<mountVars, drives>> => DriveInv'
  <1> SUFFICES ASSUME DriveInv, UNCHANGED <<mountVars, drives>> PROVE DriveInv'
    OBVIOUS
  <1>1. rootfs' = rootfs /\ place' = place /\ drives' = drives
    BY DEF mountVars
  <1>2. Here' = Here /\ \A u : PlaceOf(u)' = PlaceOf(u) /\ IsHidden(u)' = IsHidden(u) /\ IsDrive(u)' = IsDrive(u)
    BY <1>1 DEF Here, Mounted, PlaceOf, IsHidden, IsDrive, FsOf
  <1> QED
    BY <1>1, <1>2 DEF DriveInv, DrivesType, AtDrive, ToldDrives, DueDrives, Shown

LEMMA FilesKept == FileInv /\ UNCHANGED fileVars => FileInv'
  BY DEF FileInv, FilesType, WritesTold, ClaimedOnce, ChangesAnnounced, DevicesOwned, fileVars

LEMMA Stutters == VfsInv /\ UNCHANGED vfsVars => VfsInv'
  BY MountsKept, DirKept, ListKept, DriveKept, FilesKept DEF VfsInv, vfsVars, mountVars, cwdVars, fileVars

-----------------------------------------------------------------------------
(* The initial states *)

LEMMA Apart ==
    /\ "/" \notin FS /\ Null \notin FS /\ Nobody \notin FS
    /\ Nobody # "/" /\ Null # "/" /\ Nobody \notin Dirs
    /\ Nobody \notin Devices /\ DevFS \in FS
  <1>1. FS \cap {"/", Null, Nobody} = {} /\ Nobody \notin Devices /\ DevFS \in FS
    BY VfsAssumption
  <1>2. Nobody # "/" /\ Null # "/"
    BY DEF Nobody, Null
  <1> QED
    BY <1>1, <1>2 DEF Dirs

LEMMA Starts == VfsInit => VfsInv
  <1> SUFFICES ASSUME VfsInit PROVE VfsInv
    OBVIOUS
  <1>1. Root \in Path
    BY PathsFact
  <1>2. MountInv
    <2>1. PICK n \in Nat : n = Cardinality(Booted)
      BY VfsAssumption, FS_CardinalityType
    <2>2. place \in [FS -> 0..n] /\ mounts = n
      BY <2>1 DEF VfsInit
    <2>3. /\ \A f \in FS : place[f] > 0 <=> f \in Booted
          /\ \A f, g \in Booted : place[f] = place[g] => f = g
      BY DEF VfsInit
    <2>4. Booted \subseteq FS \ AtRoot
      BY VfsAssumption
    <2>5. place \in [FS -> Nat]
      BY <2>2
    <2>6. \A f \in FS : place[f] > 0 => f \notin AtRoot /\ place[f] <= mounts
      BY <2>2, <2>3, <2>4
    <2>7. \A f, g \in Mounted : place[f] = place[g] => f = g
      BY <2>3 DEF Mounted
    <2> QED
      BY <2>2, <2>5, <2>6, <2>7 DEF VfsInit, MountInv
  <1>3. DirInv
    <2>1. cwd = Root /\ cwdmount = "/" /\ at = [f \in FS |-> Root] /\ rootfs = Null
      BY DEF VfsInit
    <2>2. Leads(Root, "/")
      <3>1. \A f \in Mounted : f \in FS /\ f \notin AtRoot
        BY <1>2 DEF MountInv, Mounted
      <3> QED
        BY <1>1, <3>1, BelowFact DEF Leads
    <2>3. GetMount(Root) = "/"
      BY <1>1, <1>2, <2>2, MountFact DEF MountsLead
    <2> QED
      BY <1>1, <2>1, <2>3 DEF DirInv, SameDirectory, FsOf
  <1>4. ListInv
    BY DEF VfsInit, NoListing, ListInv
  <1>5. DriveInv
    BY DEF VfsInit, NoDrives, DriveInv, DrivesType, Dirs
  <1>6. FileInv
    <2>1. files = {} /\ stale = {}
      BY DEF VfsInit
    <2>2. \A d \in Devices : devices[d] = [claimed |-> FALSE, claims |-> 0, open |-> FALSE]
      BY DEF VfsInit
    <2>3. devices \in [Devices -> [claimed : BOOLEAN, claims : Nat, open : BOOLEAN]]
      BY DEF VfsInit
    <2> QED
      BY <2>1, <2>2, <2>3 DEF FileInv, FilesType, WritesTold, ClaimedOnce, ChangesAnnounced, DevicesOwned
  <1> QED
    BY <1>2, <1>3, <1>4, <1>5, <1>6 DEF VfsInv

-----------------------------------------------------------------------------
(* Mounting *)

LEMMA Mounts ==
    ASSUME VfsInv, FileWindows = {}, NEW f \in FS, VfsMount(f)
    PROVE  VfsInv'
  <1>1. /\ f # rootfs /\ place[f] = 0 /\ (f \in AtRoot => rootfs = Null)
        /\ f \in AtRoot \/ ~Below(cwd, Where[f])
        /\ at' = [at EXCEPT ![f] = Root]
        /\ cwd' = cwd /\ cwdmount' = cwdmount /\ listing' = listing /\ drives' = drives /\ UNCHANGED fileVars
    BY DEF VfsMount, May, cwdVars
  <1>2. MountInv /\ DirInv /\ DriveInv
    BY DEF VfsInv
  <1>3. Root \in Path /\ cwd \in Path
    BY <1>2, PathsFact DEF DirInv
  <1>4. ListInv' /\ FileInv'
    BY <1>1, ListKept, FilesKept DEF VfsInv
  <1>5. Leads(cwd, cwdmount)
    BY <1>2, MountFact DEF DirInv, SameDirectory, MountsLead
  <1>6. CASE f \in AtRoot
    <2>1. rootfs = Null /\ rootfs' = f /\ place' = place /\ mounts' = mounts
      BY <1>1, <1>6 DEF VfsMount
    <2>2. Mounted' = Mounted /\ \A u : PlaceOf(u)' = PlaceOf(u)
      BY <2>1 DEF Mounted, PlaceOf
    <2>3. MountInv'
      BY <1>2, <1>6, <2>1, <2>2 DEF MountInv
    <2>4. GetMount(cwd)' = GetMount(cwd)
      BY <1>1, <2>1 DEF GetMount, FirstOf, Mounted, PlaceOf
    <2>5. f \notin Mounted
      BY <1>1, <1>2 DEF MountInv, Mounted
    <2>6. cwdmount = "/" \/ cwdmount \in Mounted
      BY <1>5, Zenon DEF Leads
    <2>7. DirInv'
      <3>1. cwd' \in Path /\ at' \in [FS -> Path] /\ cwdmount' = GetMount(cwd)'
        BY <1>1, <1>2, <1>3, <2>4 DEF DirInv, SameDirectory
      <3>2. CASE cwdmount = "/"
        <4>1. cwd = Root /\ FsOf(cwdmount)' = f /\ PathOf(cwdmount)' = Root /\ at'[f] = Root
          BY <1>1, <1>2, <2>1, <3>2 DEF DirInv, FsOf, PathOf
        <4>2. cwd = PathOf(cwdmount)' \o at'[f]
          BY <4>1 DEF Root
        <4> QED
          BY <1>1, <3>1, <4>1, <4>2 DEF DirInv, SameDirectory
      <3>3. CASE cwdmount # "/"
        <4>1. cwdmount # f /\ cwdmount \in FS /\ FsOf(cwdmount) = cwdmount /\ FsOf(cwdmount)' = cwdmount
          BY <1>1, <2>5, <2>6, <3>3 DEF FsOf, Mounted
        <4>2. at'[cwdmount] = at[cwdmount] /\ PathOf(cwdmount)' = PathOf(cwdmount)
          BY <1>1, <1>2, <4>1 DEF DirInv, PathOf
        <4> QED
          BY <1>1, <1>2, <3>1, <3>3, <4>1, <4>2 DEF DirInv, SameDirectory
      <3> QED
        BY <3>2, <3>3
    <2>8. DriveInv'
      <3>1. Here' = Here
        BY <2>2 DEF Here
      <3>2. IsHidden("/") /\ ~IsDrive("/")
        BY <2>1 DEF IsHidden, IsDrive, FsOf
      <3>3. \A u : u # "/" => IsHidden(u)' = IsHidden(u) /\ IsDrive(u)' = IsDrive(u)
        BY DEF IsHidden, IsDrive, FsOf
      <3> QED
        BY <1>1, <1>2, <2>2, <3>1, <3>2, <3>3
           DEF DriveInv, DrivesType, AtDrive, ToldDrives, DueDrives, Shown
    <2> QED
      BY <1>4, <2>3, <2>7, <2>8 DEF VfsInv
  <1>7. CASE f \notin AtRoot
    <2>1. rootfs' = rootfs /\ place' = [place EXCEPT ![f] = mounts + 1] /\ mounts' = mounts + 1
      BY <1>1, <1>7 DEF VfsMount
    <2>2. /\ mounts \in Nat /\ place \in [FS -> Nat] /\ place'[f] = mounts + 1 /\ f \notin Mounted
          /\ \A g \in FS : g # f => place'[g] = place[g]
      BY <1>1, <1>2, <2>1 DEF MountInv, Mounted
    <2>3. Mounted' = Mounted \cup {f}
      BY <1>1, <2>2 DEF Mounted
    <2>4. \A g \in Mounted : g \in FS /\ g # f /\ place[g] <= mounts /\ place[g] \in Nat /\ g \notin AtRoot
      BY <1>2, <2>2 DEF MountInv, Mounted
    <2>5. MountInv'
      <3>1. place' \in [FS -> Nat] /\ mounts' \in Nat
        BY <2>1, <2>2
      <3>2. \A g \in FS : place'[g] > 0 => g \notin AtRoot /\ place'[g] <= mounts'
        BY <1>2, <1>7, <2>1, <2>2 DEF MountInv
      <3>3. \A g, k \in Mounted' : place'[g] = place'[k] => g = k
        <4> SUFFICES ASSUME NEW g \in Mounted \cup {f}, NEW k \in Mounted \cup {f}, place'[g] = place'[k] PROVE g = k
          BY <2>3
        <4>1. CASE g \in Mounted /\ k \in Mounted
          BY <1>2, <2>2, <2>4, <4>1 DEF MountInv
        <4>2. CASE g = f /\ k \in Mounted
          BY <2>2, <2>4, <4>2
        <4>3. CASE g \in Mounted /\ k = f
          BY <2>2, <2>4, <4>3
        <4> QED
          BY <4>1, <4>2, <4>3
      <3> QED
        BY <1>2, <2>1, <3>1, <3>2, <3>3 DEF MountInv
    <2>6. cwdmount = "/" \/ cwdmount \in Mounted
      BY <1>5 DEF Leads
    <2>7. GetMount(cwd)' = cwdmount
      <3>1. Leads(cwd, cwdmount)'
        BY <1>1, <1>5, <1>7, <2>3 DEF Leads
      <3> QED
        BY <1>1, <1>3, <2>5, <3>1, MountFactNext DEF MountsLead
    <2>8. DirInv'
      <3>1. FsOf(cwdmount)' = FsOf(cwdmount) /\ PathOf(cwdmount)' = PathOf(cwdmount) /\ FsOf(cwdmount) # f
        BY <1>1, <2>1, <2>4, <2>6 DEF FsOf, PathOf
      <3>2. at' \in [FS -> Path] /\ \A g : g # f => at'[g] = at[g]
        BY <1>1, <1>2, <1>3 DEF DirInv
      <3> QED
        BY <1>1, <1>2, <2>1, <2>7, <3>1, <3>2 DEF DirInv, SameDirectory
    <2>9. DriveInv'
      <3>1. Here' = Here \cup {f} /\ f \notin Here
        BY <2>2, <2>3, Apart DEF Here
      <3>2. \A u \in Here : PlaceOf(u)' = PlaceOf(u)
        BY <2>2, <2>4 DEF Here, PlaceOf
      <3>3. \A u : IsHidden(u)' = IsHidden(u) /\ IsDrive(u)' = IsDrive(u)
        BY <2>1 DEF IsHidden, IsDrive, FsOf
      <3> QED
        BY <1>1, <1>2, <3>1, <3>2, <3>3 DEF DriveInv, DrivesType, AtDrive, ToldDrives, DueDrives, Shown
    <2> QED
      BY <1>4, <2>5, <2>8, <2>9 DEF VfsInv
  <1> QED
    BY <1>6, <1>7

LEMMA Unmounts ==
    ASSUME VfsInv, FileWindows = {}, NEW f \in FS, VfsUnmount(f)
    PROVE  VfsInv'
  <1>1. /\ f = rootfs \/ f \in Mounted
        /\ ~InUse(f)
        /\ at' = at /\ cwd' = cwd /\ cwdmount' = cwdmount /\ listing' = listing /\ UNCHANGED fileVars
    BY DEF VfsUnmount, May, cwdVars
  <1>2. MountInv /\ DirInv /\ DriveInv
    BY DEF VfsInv
  <1>3. Root \in Path /\ cwd \in Path
    BY <1>2, PathsFact DEF DirInv
  <1>4. ListInv' /\ FileInv'
    BY <1>1, ListKept, FilesKept DEF VfsInv
  <1>5. Leads(cwd, cwdmount)
    BY <1>2, MountFact DEF DirInv, SameDirectory, MountsLead
  <1>6. cwdmount = "/" \/ cwdmount \in Mounted
    BY <1>5, Zenon DEF Leads
  <1>7. FsOf(cwdmount) # f /\ (drives.open /\ drives.at # Nobody => FsOf(drives.at) # f)
    BY <1>1 DEF InUse
  <1>8. CASE f = rootfs
    <2>1. rootfs' = Null /\ place' = place /\ mounts' = mounts /\ drives' = Without("/")
      BY <1>8 DEF VfsUnmount
    <2>2. MountInv'
      BY <1>2, <2>1 DEF MountInv, Mounted
    <2>3. cwdmount # "/"
      BY <1>7, <1>8 DEF FsOf
    <2>4. GetMount(cwd)' = GetMount(cwd)
      BY <1>1, <2>1 DEF GetMount, FirstOf, Mounted, PlaceOf
    <2>5. DirInv'
      BY <1>1, <1>2, <2>3, <2>4 DEF DirInv, SameDirectory, FsOf, PathOf
    <2>6. DriveInv'
      <3>1. /\ drives'.open = drives.open /\ drives'.at = drives.at /\ drives'.hiddenToo = drives.hiddenToo
            /\ drives'.due = drives.due \ {"/"} /\ drives'.told = [drives.told EXCEPT !["/"] = 0]
            /\ DrivesType'
        BY <1>2, <2>1 DEF Without, DriveInv, DrivesType, Dirs
      <3>2. Here' = Here /\ \A u : PlaceOf(u)' = PlaceOf(u)
        BY <2>1 DEF Here, Mounted, PlaceOf
      <3>3. \A u : u # "/" => IsHidden(u)' = IsHidden(u) /\ IsDrive(u)' = IsDrive(u)
        BY DEF IsHidden, IsDrive, FsOf
      <3>4. SUFFICES ASSUME drives.open PROVE AtDrive' /\ ToldDrives' /\ DueDrives'
        BY <3>1 DEF DriveInv
      <3>5. AtDrive /\ ToldDrives /\ DueDrives /\ (drives.at # Nobody => drives.at # "/")
        BY <1>2, <1>7, <1>8, <3>4 DEF DriveInv, FsOf
      <3>6. AtDrive'
        BY <3>1, <3>2, <3>3, <3>5 DEF AtDrive, Shown
      <3>7. \A u \in Dirs : IF u = "/" THEN drives'.told[u] = 0 ELSE drives'.told[u] = drives.told[u]
        BY <1>2, <3>1 DEF DriveInv, DrivesType
      <3>8. ToldDrives'
        BY <3>1, <3>2, <3>3, <3>5, <3>7 DEF ToldDrives, Shown
      <3>9. drives.due \subseteq Dirs
        BY <1>2 DEF DriveInv, DrivesType
      <3>10. DueDrives'
        BY <3>1, <3>2, <3>3, <3>5, <3>7, <3>9 DEF DueDrives
      <3> QED
        BY <3>6, <3>8, <3>10
    <2> QED
      BY <1>4, <2>2, <2>5, <2>6 DEF VfsInv
  <1>9. CASE f # rootfs
    <2>1. f \in Mounted /\ place[f] \in Nat /\ place[f] > 0 /\ mounts \in Nat /\ place[f] <= mounts /\ f \notin AtRoot
      BY <1>1, <1>2, <1>9 DEF MountInv, Mounted
    <2>2. PICK k \in Nat : k = place[f]
      BY <2>1
    <2>3. /\ rootfs' = rootfs /\ mounts' = mounts - 1 /\ drives' = Without(f)
          /\ place' = [g \in FS |-> IF g = f THEN 0 ELSE IF place[g] > k THEN place[g] - 1 ELSE place[g]]
      BY <1>9, <2>2 DEF VfsUnmount
    <2>4. \A g \in FS : place[g] \in Nat /\ place'[g] = IF g = f THEN 0 ELSE IF place[g] > k THEN place[g] - 1 ELSE place[g]
      BY <1>2, <2>3 DEF MountInv
    <2>5. k > 0 /\ k <= mounts
      BY <2>1, <2>2
    <2>6. \A g \in FS : place'[g] \in Nat /\ (place'[g] > 0 <=> g # f /\ place[g] > 0)
      BY <2>4, <2>5
    <2>7. Mounted' = Mounted \ {f}
      BY <2>6 DEF Mounted
    <2>8. \A g \in Mounted : g # f => place[g] # k
      BY <1>2, <2>1, <2>2 DEF MountInv
    <2>9. \A g, h \in Mounted \ {f} : /\ place[g] < place[h] => place'[g] < place'[h]
                                      /\ place[g] <= place[h] => place'[g] <= place'[h]
      <3> SUFFICES ASSUME NEW g \in Mounted \ {f}, NEW h \in Mounted \ {f}
                   PROVE  /\ place[g] < place[h] => place'[g] < place'[h]
                          /\ place[g] <= place[h] => place'[g] <= place'[h]
        OBVIOUS
      <3>1. g \in FS /\ h \in FS /\ g # f /\ h # f /\ place[g] # k /\ place[h] # k
        BY <2>8 DEF Mounted
      <3>2. PICK a \in Nat, b \in Nat : a = place[g] /\ b = place[h] /\ a # k /\ b # k
        BY <2>4, <3>1
      <3>3. /\ place'[g] = IF a > k THEN a - 1 ELSE a
            /\ place'[h] = IF b > k THEN b - 1 ELSE b
        BY <2>4, <3>1, <3>2
      <3> QED
        BY <3>2, <3>3
    <2>10. MountInv'
      <3>1. place' \in [FS -> Nat]
        BY <2>3, <2>6
      <3>2. \A g \in FS : place'[g] > 0 => g \notin AtRoot /\ place'[g] <= mounts'
        <4> SUFFICES ASSUME NEW g \in FS, place'[g] > 0 PROVE g \notin AtRoot /\ place'[g] <= mounts'
          OBVIOUS
        <4>1. g # f /\ place[g] > 0 /\ g \in Mounted
          BY <2>6 DEF Mounted
        <4>2. g \notin AtRoot /\ place[g] <= mounts /\ place[g] # k
          BY <1>2, <2>8, <4>1 DEF MountInv
        <4> QED
          BY <2>1, <2>3, <2>4, <2>5, <4>1, <4>2
      <3>3. \A g, h \in Mounted' : place'[g] = place'[h] => g = h
        <4> SUFFICES ASSUME NEW g \in Mounted \ {f}, NEW h \in Mounted \ {f}, place'[g] = place'[h] PROVE g = h
          BY <2>7
        <4>1. g \in FS /\ h \in FS /\ place'[g] \in Nat /\ place'[h] \in Nat
          BY <2>6 DEF Mounted
        <4>2. ~(place[g] < place[h]) /\ ~(place[h] < place[g])
          <5>1. PICK p \in Nat : p = place'[g]
            BY <4>1
          <5>2. ~(p < p)
            BY <5>1
          <5>3. p = place'[h]
            BY <5>1
          <5>4. place[g] < place[h] => place'[g] < place'[h]
            BY <2>9
          <5>5. place[h] < place[g] => place'[h] < place'[g]
            BY <2>9
          <5> QED
            BY <5>1, <5>2, <5>3, <5>4, <5>5, Zenon
        <4>3. place[g] = place[h]
          BY <2>4, <4>1, <4>2
        <4> QED
          BY <1>2, <4>3 DEF MountInv
      <3>4. mounts' \in Nat
        BY <2>1, <2>3, <2>5
      <3> QED
        BY <1>2, <2>3, <3>1, <3>2, <3>3, <3>4 DEF MountInv
    <2>11. cwdmount # f
      BY <1>7, <2>1, Apart DEF FsOf
    <2>12. GetMount(cwd)' = cwdmount
      <3>1. Leads(cwd, cwdmount)'
        BY <1>1, <1>5, <2>7, <2>11 DEF Leads
      <3> QED
        BY <1>1, <1>3, <2>10, <3>1, MountFactNext DEF MountsLead
    <2>13. DirInv'
      BY <1>1, <1>2, <2>3, <2>12 DEF DirInv, SameDirectory, FsOf, PathOf
    <2>14. DriveInv'
      <3>1. /\ drives'.open = drives.open /\ drives'.at = drives.at /\ drives'.hiddenToo = drives.hiddenToo
            /\ drives'.due = drives.due \ {f} /\ drives'.told = [drives.told EXCEPT ![f] = 0]
            /\ DrivesType'
        BY <1>2, <2>3 DEF Without, DriveInv, DrivesType, Dirs
      <3>2. f # "/" /\ Here' = Here \ {f}
        BY <2>1, <2>7, Apart DEF Here, Mounted
      <3>3. \A u : IsHidden(u)' = IsHidden(u) /\ IsDrive(u)' = IsDrive(u)
        BY <2>3 DEF IsHidden, IsDrive, FsOf
      <3>4. \A u, n \in Here \ {f} : /\ PlaceOf(u) < PlaceOf(n) => PlaceOf(u)' < PlaceOf(n)'
                                     /\ PlaceOf(u) <= PlaceOf(n) => PlaceOf(u)' <= PlaceOf(n)'
        <4> SUFFICES ASSUME NEW u \in Here \ {f}, NEW n \in Here \ {f}
                     PROVE  /\ PlaceOf(u) < PlaceOf(n) => PlaceOf(u)' < PlaceOf(n)'
                            /\ PlaceOf(u) <= PlaceOf(n) => PlaceOf(u)' <= PlaceOf(n)'
          OBVIOUS
        <4>0. "/" \notin Mounted /\ \A g \in Mounted \ {f} : place[g] \in Nat /\ place[g] > 0 /\ place'[g] \in Nat /\ place'[g] > 0
          BY <2>4, <2>6, Apart DEF Mounted
        <4>1. CASE u \in Mounted /\ n \in Mounted
          <5>1. u # "/" /\ n # "/" /\ u \in Mounted \ {f} /\ n \in Mounted \ {f}
            BY <4>0, <4>1
          <5>2. /\ PlaceOf(u) = place[u] /\ PlaceOf(n) = place[n]
                /\ PlaceOf(u)' = place'[u] /\ PlaceOf(n)' = place'[n]
            BY <5>1 DEF PlaceOf
          <5>3. /\ place[u] < place[n] => place'[u] < place'[n]
                /\ place[u] <= place[n] => place'[u] <= place'[n]
            BY <2>9, <5>1
          <5> QED
            BY <5>2, <5>3, Zenon
        <4>2. CASE u = "/" /\ n \in Mounted
          BY <4>0, <4>2 DEF PlaceOf
        <4>3. CASE u \in Mounted /\ n = "/"
          BY <4>0, <4>3 DEF PlaceOf
        <4>4. CASE u = "/" /\ n = "/"
          BY <4>4 DEF PlaceOf
        <4> QED
          BY <4>1, <4>2, <4>3, <4>4 DEF Here
      <3>5. SUFFICES ASSUME drives.open PROVE AtDrive' /\ ToldDrives' /\ DueDrives'
        BY <3>1 DEF DriveInv
      <3>6. AtDrive /\ ToldDrives /\ DueDrives /\ (drives.at # Nobody => drives.at # f)
        BY <1>2, <1>7, <3>2, <3>5 DEF DriveInv, FsOf
      <3>7. AtDrive'
        BY <3>1, <3>2, <3>3, <3>6 DEF AtDrive, Shown
      <3>8. \A u \in Dirs : IF u = f THEN drives'.told[u] = 0 ELSE drives'.told[u] = drives.told[u]
        BY <1>2, <3>1 DEF DriveInv, DrivesType
      <3>9. ToldDrives'
        BY <3>1, <3>2, <3>3, <3>4, <3>6, <3>8 DEF ToldDrives, AtDrive, Shown
      <3>10. drives.due \subseteq Dirs
        BY <1>2 DEF DriveInv, DrivesType
      <3>11. DueDrives'
        BY <3>1, <3>2, <3>3, <3>4, <3>6, <3>8, <3>10 DEF DueDrives, AtDrive
      <3> QED
        BY <3>7, <3>9, <3>11
    <2> QED
      BY <1>4, <2>10, <2>13, <2>14 DEF VfsInv
  <1> QED
    BY <1>8, <1>9

-----------------------------------------------------------------------------
(* Files *)

LEMMA MountOfFact ==
    ASSUME MountInv, DirInv, NEW p \in Path, NEW relative \in BOOLEAN
    PROVE  /\ MountOf(p, relative) \in Here
           /\ FsOf(MountOf(p, relative)) \in FS \cup {Null}
           /\ IsHidden(MountOf(p, relative)) <=> FsOf(MountOf(p, relative)) \in Hidden \cup {Null}
  <1>1. cwd \in Path /\ cwdmount = GetMount(cwd)
    BY DEF DirInv, SameDirectory
  <1>2. Leads(p, GetMount(p)) /\ Leads(cwd, cwdmount)
    BY <1>1, MountFact DEF MountsLead
  <1>3. MountOf(p, relative) = cwdmount \/ MountOf(p, relative) = GetMount(p)
    BY DEF MountOf
  <1>4. MountOf(p, relative) \in Here
    BY <1>2, <1>3 DEF Leads, Here
  <1>5. \A u \in Here : FsOf(u) \in FS \cup {Null}
    BY DEF MountInv, FsOf, Here, Mounted, AtRoot
  <1> QED
    BY <1>4, <1>5 DEF IsHidden

LEMMA OpensDevice ==
    ASSUME FileInv, NEW d \in Devices, NEW mode, NEW claimable \in BOOLEAN, OpenDevice(d, mode, claimable)
    PROVE  FileInv'
  <1> DEFINE device == devices[d]
             claimed == mode = "w" /\ (device.claimed \/ claimable)
             opened == claimed /\ ~device.open
             h == Handle(DevFS, ~IsHidden(DevFS), FALSE, d)
  <1>1. /\ device.claimed \in BOOLEAN /\ device.open \in BOOLEAN /\ device.claims \in Nat
        /\ device.claims = IF device.claimed THEN 1 ELSE 0
        /\ device.open <=> \E file \in files : file.device = d
    BY DEF FileInv, FilesType, ClaimedOnce, DevicesOwned
  <1>2. claimed \in BOOLEAN /\ opened \in BOOLEAN /\ DevFS \in FS
    BY VfsAssumption
  <1>3. /\ devices' = [devices EXCEPT ![d] =
              [claimed |-> device.claimed \/ claimed, open |-> device.open \/ opened,
               claims |-> IF claimed /\ ~device.claimed THEN device.claims + 1 ELSE device.claims]]
        /\ files' = IF opened THEN files \cup {h} ELSE files
        /\ stale' = stale
    BY DEF OpenDevice
  <1>4. h.fs = DevFS /\ h.update \in BOOLEAN /\ h.writes = FALSE /\ h.device = d
    BY DEF Handle
  <1> HIDE DEF device, claimed, opened, h
  <1>5. PICK n \in Nat : n = IF claimed /\ ~device.claimed THEN device.claims + 1 ELSE device.claims
    BY <1>1
  <1>6. PICK c \in BOOLEAN, o \in BOOLEAN : c = (device.claimed \/ claimed) /\ o = (device.open \/ opened)
    BY <1>1, <1>2
  <1>7. n = IF c THEN 1 ELSE 0
    <2>1. CASE device.claimed
      <3>1. device.claims = 1 /\ n = device.claims /\ c
        BY <1>1, <1>5, <1>6, <2>1
      <3> QED
        BY <3>1
    <2>2. CASE ~device.claimed
      <3>1. device.claims = 0
        BY <1>1, <2>2
      <3>2. CASE claimed
        <4>1. n = device.claims + 1
          BY <1>5, <2>2, <3>2
        <4>2. n = 1
          BY <3>1, <4>1
        <4> QED
          BY <1>6, <3>2, <4>2
      <3>3. CASE ~claimed
        BY <1>5, <1>6, <2>2, <3>1, <3>3
      <3> QED
        BY <3>2, <3>3
    <2> QED
      BY <2>1, <2>2
  <1>8. devices' = [devices EXCEPT ![d] = [claimed |-> c, open |-> o, claims |-> n]]
    BY <1>3, <1>5, <1>6
  <1>9. \A e \in Devices : devices[e] \in [claimed : BOOLEAN, claims : Nat, open : BOOLEAN]
    BY DEF FileInv, FilesType
  <1>10. \A e \in Devices : devices'[e] = IF e = d THEN [claimed |-> c, open |-> o, claims |-> n] ELSE devices[e]
    BY <1>8 DEF FileInv, FilesType
  <1>11. devices'[d].claimed = c /\ devices'[d].open = o /\ devices'[d].claims = n
    BY <1>10
  <1>12. FilesType'
    <2>1. devices' \in [Devices -> [claimed : BOOLEAN, claims : Nat, open : BOOLEAN]]
      BY <1>8 DEF FileInv, FilesType
    <2> QED
      BY <1>2, <1>3, <1>4, <2>1 DEF FileInv, FilesType
  <1>13. WritesTold'
    BY <1>3, <1>4 DEF FileInv, WritesTold
  <1>14. ClaimedOnce'
    BY <1>7, <1>10, <1>11 DEF FileInv, ClaimedOnce
  <1>15. ChangesAnnounced'
    BY <1>3 DEF FileInv, ChangesAnnounced
  <1>16. DevicesOwned'
    <2>1. \A e \in Devices : devices'[e].claims <= 1
      BY <1>14 DEF ClaimedOnce
    <2>2. CASE opened
      <3>1. o = TRUE /\ files' = files \cup {h} /\ ~device.open
        BY <1>1, <1>3, <1>6, <2>2 DEF opened
      <3>2. \A file \in files : file.device # d
        BY <1>1, <3>1
      <3>3. \A e \in Devices : devices'[e].open <=> \E file \in files' : file.device = e
        <4> TAKE e \in Devices
        <4>1. CASE e = d
          BY <1>4, <1>11, <3>1, <4>1
        <4>2. CASE e # d
          BY <1>4, <1>10, <3>1, <4>2 DEF FileInv, DevicesOwned
        <4> QED
          BY <4>1, <4>2
      <3>4. \A one, other \in files' : one.device = other.device /\ one.device # Nobody => one = other
        BY <1>4, <3>1, <3>2 DEF FileInv, DevicesOwned
      <3> QED
        BY <2>1, <3>3, <3>4 DEF DevicesOwned
    <2>3. CASE ~opened
      <3>1. files' = files /\ (o <=> device.open)
        BY <1>1, <1>3, <1>6, <2>3
      <3>2. \A e \in Devices : devices'[e].open <=> \E file \in files' : file.device = e
        <4> TAKE e \in Devices
        <4>1. CASE e = d
          BY <1>1, <1>11, <3>1, <4>1
        <4>2. CASE e # d
          BY <1>10, <3>1, <4>2 DEF FileInv, DevicesOwned
        <4> QED
          BY <4>1, <4>2
      <3> QED
        BY <2>1, <3>1, <3>2 DEF FileInv, DevicesOwned
    <2> QED
      BY <1>2, <2>2, <2>3
  <1> QED
    BY <1>12, <1>13, <1>14, <1>15, <1>16 DEF FileInv

LEMMA Opens ==
    ASSUME VfsInv, FileWindows = {}, NEW p \in Path, NEW relative \in BOOLEAN, NEW mode \in {"r", "w", "a"},
           NEW granted \in BOOLEAN, VfsOpen(p, relative, mode, granted)
    PROVE  VfsInv'
  <1> DEFINE u == MountOf(p, relative)
             f == FsOf(u)
             h == Handle(f, ~IsHidden(u) /\ mode = "w", mode # "r", Nobody)
  <1>1. /\ mode # "a"
        /\ UNCHANGED <<mountVars, cwdVars, at, listing, drives>>
    BY DEF VfsOpen, May
  <1>2. FileInv'
    <2>1. FileInv
      BY DEF VfsInv
    <2>2. f \in FS \cup {Null} /\ (IsHidden(u) <=> f \in Hidden \cup {Null})
      BY MountOfFact DEF VfsInv
    <2>3. CASE f = DevFS
      <3>1. PICK d \in Devices : OpenDevice(d, mode, granted)
        BY <2>3 DEF VfsOpen
      <3> QED
        BY <2>1, <3>1, OpensDevice
    <2>4. CASE f # DevFS
      <3>1. /\ f # Null
            /\ files' = files \cup {h}
            /\ stale' = IF mode = "w" THEN Changed(f) ELSE stale
            /\ devices' = devices
        BY <2>4 DEF VfsOpen
      <3>2. /\ h.fs = f /\ h.update = (~IsHidden(u) /\ mode = "w") /\ h.writes = (mode # "r") /\ h.device = Nobody
        BY DEF Handle
      <3> HIDE DEF h, f, u
      <3>3. f \in FS /\ (IsHidden(u) <=> f \in Hidden)
        BY <2>2, <3>1
      <3>4. h.update \in BOOLEAN /\ h.writes \in BOOLEAN /\ (h.writes <=> mode = "w") /\ (h.writes /\ f \notin Hidden => h.update)
        BY <1>1, <3>2, <3>3
      <3>5. stale' \subseteq stale \cup {f} /\ (f \in stale' => f \in stale \/ h.update)
        BY <3>1, <3>2, <3>3 DEF Changed
      <3>6. FilesType'
        BY <2>1, <3>1, <3>2, <3>3, <3>4, <3>5 DEF FileInv, FilesType
      <3>7. WritesTold'
        BY <2>1, <3>1, <3>2, <3>4 DEF FileInv, WritesTold
      <3>8. ChangesAnnounced'
        BY <2>1, <3>1, <3>2, <3>5 DEF FileInv, ChangesAnnounced
      <3>9. ClaimedOnce'
        BY <2>1, <3>1 DEF FileInv, ClaimedOnce
      <3>10. DevicesOwned'
        BY <2>1, <3>1, <3>2, Apart DEF FileInv, DevicesOwned
      <3> QED
        BY <3>6, <3>7, <3>8, <3>9, <3>10 DEF FileInv
    <2> QED
      BY <2>3, <2>4
  <1>3. MountInv' /\ DirInv' /\ ListInv' /\ DriveInv'
    BY <1>1, MountsKept, DirKept, ListKept, DriveKept DEF VfsInv
  <1> QED
    BY <1>2, <1>3 DEF VfsInv

LEMMA Writes ==
    ASSUME VfsInv, NEW file \in files, VfsWrite(file)
    PROVE  VfsInv'
  <1>1. /\ file.writes /\ stale' = Changed(file.fs) /\ files' = files /\ devices' = devices
        /\ UNCHANGED <<mountVars, cwdVars, at, listing, drives>>
    BY DEF VfsWrite
  <1>2. FileInv'
    <2>1. FileInv
      BY DEF VfsInv
    <2>2. file.fs \in FS /\ (file.fs \notin Hidden => file.update)
      BY <1>1, <2>1 DEF FileInv, FilesType, WritesTold
    <2>3. \A g \in stale' : g \in FS /\ (g \in stale \/ (g = file.fs /\ file.update))
      BY <1>1, <2>1, <2>2 DEF Changed, FileInv, FilesType
    <2> QED
      BY <1>1, <2>1, <2>3 DEF FileInv, FilesType, WritesTold, ClaimedOnce, ChangesAnnounced, DevicesOwned
  <1>3. MountInv' /\ DirInv' /\ ListInv' /\ DriveInv'
    BY <1>1, MountsKept, DirKept, ListKept, DriveKept DEF VfsInv
  <1> QED
    BY <1>2, <1>3 DEF VfsInv

LEMMA Closes ==
    ASSUME VfsInv, NEW file \in files, VfsClose(file)
    PROVE  VfsInv'
  <1>1. /\ files' = files \ {file}
        /\ stale' = IF file.update THEN stale \ {file.fs} ELSE stale
        /\ devices' = [d \in Devices |-> IF d = file.device THEN [devices[d] EXCEPT !.open = FALSE] ELSE devices[d]]
        /\ UNCHANGED <<mountVars, cwdVars, at, listing, drives>>
    BY DEF VfsClose
  <1>2. FileInv'
    <2>1. FilesType /\ WritesTold /\ ClaimedOnce /\ ChangesAnnounced /\ DevicesOwned
      BY DEF VfsInv, FileInv
    <2>2. \A d \in Devices : devices[d] \in [claimed : BOOLEAN, claims : Nat, open : BOOLEAN]
      BY <2>1 DEF FilesType
    <2>3. \A d \in Devices : /\ devices'[d] \in [claimed : BOOLEAN, claims : Nat, open : BOOLEAN]
                             /\ devices'[d].claims = devices[d].claims /\ devices'[d].claimed = devices[d].claimed
                             /\ d = file.device => devices'[d].open = FALSE
                             /\ d # file.device => devices'[d].open = devices[d].open
      BY <1>1, <2>2
    <2>4. devices' \in [Devices -> [claimed : BOOLEAN, claims : Nat, open : BOOLEAN]]
      <3>1. DOMAIN devices' = Devices /\ devices' = [d \in Devices |-> devices'[d]]
        BY <1>1
      <3> QED
        BY <2>3, <3>1
    <2>5. FilesType' /\ WritesTold'
      BY <1>1, <2>1, <2>4 DEF FilesType, WritesTold
    <2>6. ClaimedOnce'
      BY <2>1, <2>3 DEF ClaimedOnce
    <2>7. ChangesAnnounced'
      <3> SUFFICES ASSUME NEW g \in stale' PROVE \E k \in files \ {file} : k.fs = g /\ k.update
        BY <1>1 DEF ChangesAnnounced
      <3>1. g \in stale /\ (file.update => g # file.fs)
        BY <1>1
      <3>2. PICK k \in files : k.fs = g /\ k.update
        BY <2>1, <3>1 DEF ChangesAnnounced
      <3> QED
        BY <3>1, <3>2
    <2>8. DevicesOwned'
      <3>1. ASSUME NEW d \in Devices PROVE devices'[d].claims <= 1 /\ (devices'[d].open <=> \E k \in files' : k.device = d)
        <4>1. devices'[d].claims <= 1
          BY <2>1, <2>3 DEF DevicesOwned
        <4>2. CASE d = file.device
          <5>1. \A k \in files' : k.device # d
            BY <1>1, <2>1, <4>2, Apart DEF DevicesOwned
          <5> QED
            BY <2>3, <4>1, <4>2, <5>1
        <4>3. CASE d # file.device
          <5>1. devices[d].open <=> \E k \in files : k.device = d
            BY <2>1 DEF DevicesOwned
          <5> QED
            BY <1>1, <2>3, <4>1, <4>3, <5>1
        <4> QED
          BY <4>2, <4>3
      <3> QED
        BY <1>1, <2>1, <3>1 DEF DevicesOwned
    <2> QED
      BY <2>5, <2>6, <2>7, <2>8 DEF FileInv
  <1>3. MountInv' /\ DirInv' /\ ListInv' /\ DriveInv'
    BY <1>1, MountsKept, DirKept, ListKept, DriveKept DEF VfsInv
  <1> QED
    BY <1>2, <1>3 DEF VfsInv

LEMMA Changes ==
    ASSUME VfsInv, NEW p \in Path, NEW relative \in BOOLEAN, VfsChange(p, relative)
    PROVE  VfsInv'
  <1> DEFINE u == MountOf(p, relative)
             f == FsOf(u)
  <1>1. /\ f # Null /\ stale' = IF IsHidden(u) THEN Changed(f) ELSE Changed(f) \ {f}
        /\ files' = files /\ devices' = devices
        /\ UNCHANGED <<mountVars, cwdVars, at, listing, drives>>
    BY DEF VfsChange
  <1>2. IsHidden(u) <=> f \in Hidden \cup {Null}
    BY MountOfFact DEF VfsInv
  <1>3. stale' \subseteq stale
    <2> HIDE DEF f, u
    <2> QED
      BY <1>1, <1>2 DEF Changed
  <1>4. FileInv'
    BY <1>1, <1>3 DEF VfsInv, FileInv, FilesType, WritesTold, ClaimedOnce, ChangesAnnounced, DevicesOwned
  <1>5. MountInv' /\ DirInv' /\ ListInv' /\ DriveInv'
    BY <1>1, MountsKept, DirKept, ListKept, DriveKept DEF VfsInv
  <1> QED
    BY <1>4, <1>5 DEF VfsInv

-----------------------------------------------------------------------------
(* The current directory *)

\* Paths that begin with the same name lead to the same mount.
LEMMA SameFirst ==
    ASSUME MountInv, NEW p \in Path, NEW q \in Path, p # Root, q # Root, p[1] = q[1]
    PROVE  GetMount(p) = GetMount(q)
  <1>1. \A f \in Mounted : Below(p, Where[f]) <=> Below(q, Where[f])
    <2>1. \A f \in Mounted : f \in FS /\ f \notin AtRoot
      BY DEF MountInv, Mounted
    <2> QED
      BY <2>1, BelowFact
  <1>2. Leads(p, GetMount(p))
    BY MountFact DEF MountsLead
  <1>3. Leads(q, GetMount(p))
    BY <1>1, <1>2 DEF Leads
  <1> QED
    BY <1>3, MountFact DEF MountsLead

LEMMA ChdirsOn ==
    ASSUME VfsInv, FileWindows = {}, NEW name \in FileNames \cup Devices, NEW granted \in BOOLEAN,
           VfsChdirOn(name, granted)
    PROVE  VfsInv'
  <1> DEFINE f == FsOf(cwdmount)
             P == PathOf(cwdmount)
             a == at[f]
  <1>1. /\ cwd # Root /\ granted /\ f \notin {Null, DevFS}
        /\ name = ".." => Len(cwd) > 1 /\ cwd # P
        /\ cwd' = Into(cwd, name)
        /\ at' = FChdir(f, <<name>>, TRUE, granted)
        /\ cwdmount' = cwdmount /\ UNCHANGED <<mountVars, fileVars, listing, drives>>
    BY DEF VfsChdirOn, May
  <1>2. MountInv /\ DirInv /\ cwd \in Path /\ cwdmount = GetMount(cwd) /\ cwd = P \o a
    BY <1>1 DEF VfsInv, DirInv, SameDirectory
  <1>3. Leads(cwd, cwdmount)
    BY <1>2, MountFact DEF MountsLead
  <1>4. f \in FS /\ P \in Path /\ a \in Path
    <2>1. cwdmount = "/" \/ (cwdmount # "/" /\ cwdmount \in FS)
      BY <1>3, Apart DEF Leads, Mounted
    <2>2. f \in FS
      BY <1>1, <1>2, <2>1 DEF FsOf, MountInv, AtRoot
    <2>3. P \in Path
      BY <2>1, PathsFact DEF PathOf
    <2> QED
      BY <1>2, <2>2, <2>3 DEF DirInv
  <1>5. name \in Names
    BY VfsAssumption DEF Names
  <1>6. at' = [at EXCEPT ![f] = Into(a, name)]
    BY <1>1 DEF FChdir
  <1>7. Into(cwd, name) = P \o Into(a, name) /\ Into(a, name) \in Path /\ Into(cwd, name) \in Path
        /\ Into(cwd, name) # Root /\ Into(cwd, name)[1] = cwd[1]
    <2> HIDE DEF P, a, f
    <2>1. Root \in Path
      BY PathsFact
    <2>2. << >> \o cwd = cwd
      BY <1>2, ConcatEmptySeq DEF Path
    <2>3. CASE name = ".."
      <3>1. a # Root
        <4>1. P \o << >> = P
          BY <1>4, ConcatEmptySeq DEF Path
        <4> QED
          BY <1>1, <1>2, <2>3, <4>1 DEF Root
      <3>2. Up(cwd) = P \o Up(a) /\ Up(a) \in Path
        BY <1>2, <1>4, <3>1, UpFact, Zenon
      <3>3. Up(cwd) \in Path /\ Up(cwd) # Root /\ Up(cwd)[1] = cwd[1]
        BY <1>1, <1>2, <2>1, <2>3, UpFact
      <3> QED
        BY <2>3, <3>2, <3>3 DEF Into
    <2>4. CASE name # ".."
      <3>1. Append(cwd, name) = P \o Append(a, name) /\ Append(a, name) \in Path
        BY <1>2, <1>4, <1>5, IntoFact, Zenon
      <3>2. Append(cwd, name) \in Path /\ Append(cwd, name) # Root /\ Append(cwd, name)[1] = cwd[1]
        BY <1>1, <1>2, <1>5, <2>1, IntoFact, Zenon
      <3> QED
        BY <2>4, <3>1, <3>2 DEF Into
    <2> QED
      BY <2>3, <2>4
  <1>8. GetMount(cwd)' = cwdmount
    <2>1. GetMount(Into(cwd, name)) = cwdmount
      BY <1>1, <1>2, <1>7, SameFirst
    <2>2. Leads(Into(cwd, name), cwdmount)
      BY <1>2, <1>7, <2>1, MountFact DEF MountsLead
    <2>3. Leads(cwd, cwdmount)'
      BY <1>1, <2>2 DEF Leads, Mounted, mountVars
    <2>4. MountInv' /\ cwd' \in Path
      BY <1>1, <1>2, <1>7, MountsKept
    <2> QED
      BY <1>1, <2>3, <2>4, MountFactNext DEF MountsLead
  <1>9. DirInv'
    <2>1. rootfs' = rootfs /\ FsOf(cwdmount)' = f /\ PathOf(cwdmount)' = P
      BY <1>1 DEF FsOf, PathOf, mountVars
    <2>2. at' \in [FS -> Path] /\ at'[f] = Into(a, name)
      BY <1>2, <1>4, <1>6, <1>7 DEF DirInv
    <2>3. cwdmount = "/" => rootfs # Null
      BY <1>1 DEF FsOf
    <2> HIDE DEF f, P, a
    <2> QED
      BY <1>1, <1>7, <1>8, <2>1, <2>2, <2>3 DEF DirInv, SameDirectory
  <1>10. MountInv' /\ ListInv' /\ DriveInv' /\ FileInv'
    BY <1>1, MountsKept, ListKept, DriveKept, FilesKept DEF VfsInv
  <1> QED
    BY <1>9, <1>10 DEF VfsInv

LEMMA Chdirs ==
    ASSUME VfsInv, FileWindows = {}, NEW p \in FullPaths \cup Relative, NEW relative \in BOOLEAN,
           relative => p \in Relative, NEW granted \in BOOLEAN, VfsChdir(p, relative, granted)
    PROVE  VfsInv'
  <1> DEFINE u == GetMount(p)
             itself == u # "/" /\ Len(p) = 1
  <1>1. /\ relative => cwd = Root /\ p # <<"..">>
        /\ u # "/" => at[u] = Root /\ itself
        /\ granted /\ (itself \/ p = Root \/ FsOf(u) \notin {Null, DevFS})
        /\ cwd' = p /\ cwdmount' = u
        /\ at' = IF itself THEN at ELSE FChdir(FsOf(u), p, relative, granted)
        /\ UNCHANGED <<mountVars, fileVars, listing, drives>>
    BY DEF VfsChdir, May
  <1>2. MountInv /\ DirInv /\ p \in Path
    BY PathsFact DEF VfsInv
  <1>3. Leads(p, u)
    BY <1>2, MountFact DEF MountsLead
  <1>4. rootfs' = rootfs /\ place' = place /\ Mounted' = Mounted
    BY <1>1 DEF mountVars, Mounted
  <1>5. GetMount(cwd)' = u
    <2>1. PICK k : k = u
      OBVIOUS
    <2>2. Leads(p, k) /\ cwd' = p
      BY <1>1, <1>3, <2>1
    <2>3. Leads(cwd, k)'
      BY <1>4, <2>2 DEF Leads
    <2>4. MountInv' /\ cwd' \in Path
      BY <1>1, <1>2, MountsKept
    <2>5. GetMount(cwd)' = k
      BY <2>3, <2>4, MountFactNext DEF MountsLead
    <2> QED
      BY <2>1, <2>5
  <1>6. FsOf(cwdmount)' = FsOf(u) /\ PathOf(cwdmount)' = PathOf(u)
    BY <1>1, <1>4 DEF FsOf, PathOf
  <1>7. CASE u # "/"
    <2>1. itself /\ at[u] = Root /\ at' = at /\ FsOf(u) = u /\ PathOf(u) = Where[u]
      BY <1>1, <1>7 DEF FsOf, PathOf
    <2>2. u \in FS /\ u \notin AtRoot /\ Below(p, Where[u])
      BY <1>2, <1>3, <1>7 DEF Leads, MountInv, Mounted
    <2>3. Where[u] \in Path /\ Len(Where[u]) = 1 /\ Len(p) = 1
      BY <1>2, <2>1, <2>2, BelowFact
    <2>4. p = Where[u]
      <3>1. SubSeq(p, 1, Len(p)) = p
        BY <1>2, SubSeqFull DEF Path
      <3>2. SubSeq(p, 1, Len(Where[u])) = Where[u]
        BY <2>2 DEF Below
      <3> HIDE DEF u
      <3> QED
        BY <2>3, <3>1, <3>2
    <2>5. p = PathOf(u) \o at'[FsOf(u)]
      <3>1. Where[u] \o << >> = Where[u]
        BY <2>3, ConcatEmptySeq DEF Path
      <3> HIDE DEF u
      <3> QED
        BY <2>1, <2>4, <3>1 DEF Root
    <2>6. at' \in [FS -> Path]
      BY <1>2, <2>1 DEF DirInv
    <2> HIDE DEF u, itself
    <2> QED
      <3>1. DirInv'
        BY <1>1, <1>2, <1>5, <1>6, <1>7, <2>5, <2>6 DEF DirInv, SameDirectory
      <3>2. MountInv' /\ ListInv' /\ DriveInv' /\ FileInv'
        BY <1>1, MountsKept, ListKept, DriveKept, FilesKept DEF VfsInv
      <3> QED
        BY <3>1, <3>2 DEF VfsInv
  <1>8. CASE u = "/"
    <2>1. /\ at' = FChdir(rootfs, p, relative, granted) /\ FsOf(u) = rootfs /\ PathOf(u) = Root
          /\ p = Root \/ rootfs \notin {Null, DevFS}
      BY <1>1, <1>8 DEF FsOf, PathOf
    <2>2. rootfs \in FS \cup {Null}
      BY <1>2 DEF MountInv, AtRoot
    <2>3. DirInv'
      <3>1. CASE rootfs \in {Null, DevFS}
        <4>1. at' = at /\ p = Root
          BY <2>1, <3>1 DEF FChdir
        <4> QED
          BY <1>1, <1>2, <1>4, <1>5, <1>6, <2>1, <3>1, <4>1 DEF DirInv, SameDirectory
      <3>2. CASE rootfs \notin {Null, DevFS}
        <4>1. at' = [at EXCEPT ![rootfs] = IF relative THEN Into(@, p[1]) ELSE p]
          BY <1>1, <2>1, <3>2 DEF FChdir
        <4>2. relative => Into(at[rootfs], p[1]) = p
          <5> SUFFICES ASSUME relative PROVE Into(at[rootfs], p[1]) = p
            OBVIOUS
          <5>1. cwd = Root /\ p \in Relative /\ p # <<"..">>
            BY <1>1
          <5>2. PICK n \in FileNames \cup Devices : p = <<n>> /\ n # ".." /\ p[1] = n
            BY <5>1 DEF Relative
          <5>3. cwdmount = "/"
            <6>1. Leads(cwd, cwdmount)
              BY <1>2, MountFact DEF DirInv, SameDirectory, MountsLead
            <6>2. \A g \in Mounted : g \in FS /\ g \notin AtRoot
              BY <1>2 DEF MountInv, Mounted
            <6>3. \A g \in Mounted : ~Below(cwd, Where[g])
              BY <1>2, <5>1, <6>2, BelowFact DEF DirInv
            <6> QED
              BY <6>1, <6>3 DEF Leads
          <5>4. << >> = << >> \o at[rootfs]
            BY <1>2, <3>2, <5>1, <5>3 DEF DirInv, SameDirectory, FsOf, PathOf, Root
          <5>5. at[rootfs] \in Path
            BY <1>2, <2>2, <3>2 DEF DirInv
          <5>6. at[rootfs] = << >>
            BY <5>4, <5>5, ConcatEmptySeq DEF Path
          <5>7. Append(<< >>, n) = <<n>>
            OBVIOUS
          <5> QED
            BY <5>2, <5>6, <5>7 DEF Into
        <4>3. at' \in [FS -> Path] /\ at'[rootfs] = p
          BY <1>2, <2>2, <3>2, <4>1, <4>2 DEF DirInv
        <4>4. Root \o p = p
          BY <1>2, ConcatEmptySeq DEF Path, Root
        <4> HIDE DEF u, itself
        <4> QED
          BY <1>1, <1>2, <1>4, <1>5, <1>6, <2>1, <3>2, <4>3, <4>4 DEF DirInv, SameDirectory
      <3> QED
        BY <3>1, <3>2
    <2>4. MountInv' /\ ListInv' /\ DriveInv' /\ FileInv'
      BY <1>1, MountsKept, ListKept, DriveKept, FilesKept DEF VfsInv
    <2> QED
      BY <2>3, <2>4 DEF VfsInv
  <1> QED
    BY <1>7, <1>8

-----------------------------------------------------------------------------
(* Listings, and the enumeration of the drives *)

LEMMA Opendirs ==
    ASSUME VfsInv, FileWindows = {}, NEW p \in Path, VfsOpendir(p)
    PROVE  VfsInv'
  <1> DEFINE u == GetMount(p)
             below == Visible({f \in Mounted \ {u} : Below(Where[f], p)})
  <1>1. /\ FsOf(u) # Null
        /\ listing' = [open |-> TRUE, fs |-> FsOf(u), own |-> IF FsOf(u) = Null THEN FirstOf(Mounted) ELSE Nobody,
                       left |-> below, due |-> below, told |-> [f \in FS |-> 0], over |-> FALSE]
        /\ UNCHANGED <<mountVars, cwdVars, at, fileVars, drives>>
    BY DEF VfsOpendir, May
  <1>2. FsOf(u) \in FS
    <2>1. MountOf(p, FALSE) = u
      BY DEF MountOf
    <2>2. FsOf(u) \in FS \cup {Null}
      BY <2>1, MountOfFact DEF VfsInv
    <2> QED
      BY <1>1, <2>2
  <1>3. below \subseteq FS
    BY DEF Visible, Mounted
  <1>4. ListInv'
    <2> HIDE DEF u, below
    <2>1. listing' = [open |-> TRUE, fs |-> FsOf(u), own |-> Nobody,
                      left |-> below, due |-> below, told |-> [f \in FS |-> 0], over |-> FALSE]
      BY <1>1
    <2> QED
      BY <1>2, <1>3, <2>1 DEF ListInv
  <1>5. MountInv' /\ DirInv' /\ DriveInv' /\ FileInv'
    BY <1>1, MountsKept, DirKept, DriveKept, FilesKept DEF VfsInv
  <1> QED
    BY <1>4, <1>5 DEF VfsInv

LEMMA Readdirs ==
    ASSUME VfsInv, VfsReaddir
    PROVE  VfsInv'
  <1> DEFINE f == FirstOf(listing.left)
  <1>1. MountInv /\ ListInv /\ ~listing.over
    BY DEF VfsInv, VfsReaddir
  <1>2. listing.own = Nobody /\ listing.left \subseteq FS /\ listing.left \subseteq Dirs
    BY <1>1 DEF ListInv, Dirs
  <1>3. /\ listing.left = {} => f = Nobody
        /\ listing.left # {} => f \in listing.left /\ f # Nobody
    BY <1>1, <1>2, FirstFact DEF MountInv
  <1>4. /\ listing' = IF f = Nobody THEN [listing EXCEPT !.over = TRUE]
                      ELSE [listing EXCEPT !.told[f] = @ + 1, !.left = @ \ {f}]
        /\ UNCHANGED <<mountVars, cwdVars, at, fileVars, drives>>
    BY <1>2 DEF VfsReaddir
  <1> HIDE DEF f
  <1>5. ListInv'
    <2>1. CASE listing.left = {}
      <3>1. listing' = [listing EXCEPT !.over = TRUE]
        BY <1>3, <1>4, <2>1
      <3> QED
        BY <1>1, <2>1, <3>1 DEF ListInv
    <2>2. CASE listing.left # {}
      <3>1. f \in listing.left /\ f \in FS /\ listing' = [listing EXCEPT !.told[f] = @ + 1, !.left = @ \ {f}]
        BY <1>2, <1>3, <1>4, <2>2
      <3>2. listing.told[f] = 0 /\ listing.told \in [FS -> Nat]
        BY <1>1, <3>1 DEF ListInv
      <3>3. listing.told[f] + 1 = 1
        BY <3>2
      <3>4. /\ listing'.open = listing.open /\ listing'.fs = listing.fs /\ listing'.own = listing.own
            /\ listing'.left = listing.left \ {f} /\ listing'.due = listing.due /\ listing'.over = listing.over
            /\ listing'.told = [listing.told EXCEPT ![f] = 1]
        BY <1>1, <3>1, <3>3 DEF ListInv
      <3>5. listing' \in [open : BOOLEAN, fs : FS \cup {Null}, own : {Nobody}, left : SUBSET FS, due : SUBSET FS,
                          told : [FS -> Nat], over : BOOLEAN]
        <4>1. PICK t \in [FS -> Nat] : t = [listing.told EXCEPT ![f] = 1]
          BY <3>1, <3>2
        <4>2. PICK l \in SUBSET FS : l = listing.left \ {f}
          BY <1>2
        <4>3. listing' = [listing EXCEPT !.told = t, !.left = l]
          BY <3>1, <3>3, <4>1, <4>2
        <4> QED
          BY <1>1, <4>3 DEF ListInv
      <3>6. \A g \in FS : listing'.told[g] = IF g = f THEN 1 ELSE listing.told[g]
        BY <3>1, <3>2, <3>4
      <3>7. f \in listing.due
        BY <1>1, <3>1 DEF ListInv
      <3>8. \A g \in FS : listing'.told[g] = IF g \in listing'.due \ listing'.left THEN 1 ELSE 0
        BY <1>1, <3>1, <3>4, <3>6, <3>7 DEF ListInv
      <3> QED
        BY <1>1, <3>4, <3>5, <3>8 DEF ListInv
    <2> QED
      BY <2>1, <2>2
  <1>6. MountInv' /\ DirInv' /\ DriveInv' /\ FileInv'
    BY <1>4, MountsKept, DirKept, DriveKept, FilesKept DEF VfsInv
  <1> QED
    BY <1>5, <1>6 DEF VfsInv

LEMMA Closedirs ==
    ASSUME VfsInv, VfsClosedir
    PROVE  VfsInv'
  <1>1. listing' = NoListing /\ UNCHANGED <<mountVars, cwdVars, at, fileVars, drives>>
    BY DEF VfsClosedir
  <1>2. ListInv'
    BY <1>1 DEF NoListing, ListInv
  <1>3. MountInv' /\ DirInv' /\ DriveInv' /\ FileInv'
    BY <1>1, MountsKept, DirKept, DriveKept, FilesKept DEF VfsInv
  <1> QED
    BY <1>2, <1>3 DEF VfsInv

LEMMA DrivesOpen ==
    ASSUME VfsInv, NEW hiddenToo \in BOOLEAN, VfsDrivesOpen(hiddenToo)
    PROVE  VfsInv'
  <1> DEFINE list == Visible(Mounted \cup {"/"})
             first == FirstOf(list)
             due == {u \in Mounted \cup {"/"} : IsDrive(u)}
  <1>1. /\ first # Nobody
        /\ drives' = [open |-> TRUE, at |-> first, hiddenToo |-> hiddenToo,
                      due |-> due, told |-> [u \in FS \cup {"/"} |-> 0]]
        /\ UNCHANGED <<mountVars, cwdVars, at, fileVars, listing>>
    BY DEF VfsDrivesOpen
  <1>2. list \subseteq Here /\ Here \subseteq Dirs /\ (\A u \in list : ~IsHidden(u)) /\ place \in [FS -> Nat]
    BY DEF Visible, Here, Dirs, Mounted, VfsInv, MountInv
  <1>3. list # {} /\ first \in list /\ \A u \in list : PlaceOf(first) <= PlaceOf(u)
    <2>1. list \subseteq Dirs
      BY <1>2
    <2> HIDE DEF list
    <2> QED
      BY <1>1, <1>2, <2>1, FirstFact
  <1>4. \A u \in due : u \in Here /\ IsDrive(u) /\ u \in list
    BY DEF IsDrive, Visible, Here
  <1>5. \A u : IsHidden(u)' = IsHidden(u) /\ IsDrive(u)' = IsDrive(u) /\ PlaceOf(u)' = PlaceOf(u)
    BY <1>1 DEF IsHidden, IsDrive, FsOf, PlaceOf, mountVars
  <1>6. Here' = Here
    BY <1>1 DEF Here, Mounted, mountVars
  <1>7. DriveInv'
    <2>1. due \subseteq Dirs
      BY <1>2, <1>4
    <2> HIDE DEF list, first, due
    <2>2. drives' = [open |-> TRUE, at |-> first, hiddenToo |-> hiddenToo, due |-> due, told |-> [u \in Dirs |-> 0]]
      BY <1>1 DEF Dirs
    <2>3. DrivesType'
      BY <1>2, <1>3, <2>1, <2>2 DEF DrivesType
    <2>4. AtDrive'
      BY <1>2, <1>3, <1>5, <1>6, <2>2 DEF AtDrive, Shown
    <2>5. ToldDrives'
      BY <2>2 DEF ToldDrives
    <2>6. DueDrives'
      BY <1>1, <1>3, <1>4, <1>5, <1>6, <2>2 DEF DueDrives
    <2> QED
      BY <2>3, <2>4, <2>5, <2>6 DEF DriveInv
  <1>8. MountInv' /\ DirInv' /\ ListInv' /\ FileInv'
    BY <1>1, MountsKept, DirKept, ListKept, FilesKept DEF VfsInv
  <1> QED
    BY <1>7, <1>8 DEF VfsInv

LEMMA DrivesRead ==
    ASSUME VfsInv, VfsDrivesRead
    PROVE  VfsInv'
  <1> DEFINE next == {f \in Behind(drives.at) \ Nameless : ~IsHidden(f) \/ drives.hiddenToo}
             after == FirstOf(next)
  <1>1. /\ drives.open /\ drives.at # Nobody
        /\ drives' = [drives EXCEPT !.told[drives.at] = @ + 1, !.at = after]
        /\ UNCHANGED <<mountVars, cwdVars, at, fileVars, listing>>
    BY DEF VfsDrivesRead
  <1>2. MountInv /\ DrivesType /\ AtDrive /\ ToldDrives /\ DueDrives
    BY <1>1 DEF VfsInv, DriveInv
  <1>3. /\ next \subseteq Dirs /\ next \subseteq Mounted /\ place \in [FS -> Nat] /\ Mounted \subseteq FS
        /\ \A f \in next : Shown(f) /\ place[f] > PlaceOf(drives.at)
    BY <1>2 DEF Behind, Dirs, Mounted, MountInv, Shown
  <1>4. /\ next = {} => after = Nobody
        /\ next # {} => after \in next /\ after # Nobody /\ \A g \in next : PlaceOf(after) <= PlaceOf(g)
    <2> HIDE DEF next
    <2> QED
      BY <1>3, FirstFact
  <1>5. \A u : IsHidden(u)' = IsHidden(u) /\ IsDrive(u)' = IsDrive(u) /\ PlaceOf(u)' = PlaceOf(u)
    BY <1>1 DEF IsHidden, IsDrive, FsOf, PlaceOf, mountVars
  <1>6. Here' = Here
    BY <1>1 DEF Here, Mounted, mountVars
  <1>7. drives.at \in Here /\ drives.at \in Dirs /\ Shown(drives.at) /\ PlaceOf(drives.at) \in Nat
    BY <1>1, <1>2, <1>3 DEF AtDrive, Here, Dirs, PlaceOf
  <1>8. drives.told[drives.at] = 0 /\ drives.told \in [Dirs -> Nat]
    <2>1. drives.told \in [Dirs -> Nat]
      BY <1>2 DEF DrivesType
    <2>2. ~(drives.told[drives.at] > 0)
      <3>1. PICK n \in Nat : n = PlaceOf(drives.at)
        BY <1>7
      <3>2. ~(n < n)
        BY <3>1
      <3>3. drives.told[drives.at] > 0 => PlaceOf(drives.at) < PlaceOf(drives.at)
        BY <1>1, <1>2, <1>7 DEF ToldDrives
      <3> QED
        BY <3>1, <3>2, <3>3
    <2> QED
      BY <1>7, <2>1, <2>2
  <1>9. \A u \in Dirs : PlaceOf(u) \in Nat
    BY <1>3 DEF Dirs, PlaceOf
  <1>10. \A g \in Mounted : g # "/" /\ PlaceOf(g) = place[g]
    BY Apart DEF Mounted, PlaceOf
  <1>11. \A u \in drives.due : PlaceOf(u) > PlaceOf(drives.at) => u \in next
    <2> SUFFICES ASSUME NEW u \in drives.due, PlaceOf(u) > PlaceOf(drives.at) PROVE u \in next
      OBVIOUS
    <2>1. u \in Here /\ ~IsHidden(u) /\ FsOf(u) \notin Nameless
      BY <1>2 DEF DueDrives, IsDrive
    <2>2. u # "/"
      BY <1>7 DEF PlaceOf
    <2>3. u \in Mounted /\ FsOf(u) = u
      BY <2>1, <2>2 DEF Here, FsOf
    <2> QED
      BY <1>10, <2>1, <2>3 DEF Behind
  <1>12. \A u, n \in Here : PlaceOf(u) = PlaceOf(n) => u = n
    <2>1. \A g \in Mounted : place[g] > 0 /\ place[g] \in Nat
      BY <1>3 DEF Mounted
    <2> TAKE u \in Here, n \in Here
    <2>2. CASE u \in Mounted /\ n \in Mounted
      BY <1>2, <1>10, <2>2 DEF MountInv
    <2>3. CASE u = "/" \/ n = "/"
      BY <1>10, <2>1, <2>3 DEF PlaceOf, Here
    <2> QED
      BY <2>2, <2>3 DEF Here
  <1>13. DriveInv'
    <2> HIDE DEF next, after
    <2>1. drives.told[drives.at] + 1 = 1
      BY <1>8
    <2>2. /\ drives'.open = drives.open /\ drives'.at = after /\ drives'.hiddenToo = drives.hiddenToo
          /\ drives'.due = drives.due /\ drives'.told = [drives.told EXCEPT ![drives.at] = 1]
      BY <1>1, <1>2, <2>1 DEF DrivesType
    <2>3. after \in Dirs \cup {Nobody}
      BY <1>3, <1>4
    <2>4. DrivesType'
      <3>1. PICK t \in [Dirs -> Nat] : t = [drives.told EXCEPT ![drives.at] = 1]
        BY <1>2, <1>7, <1>8 DEF DrivesType
      <3>2. PICK k \in Dirs \cup {Nobody} : k = after
        BY <2>3
      <3>3. drives' = [drives EXCEPT !.told = t, !.at = k]
        BY <1>1, <2>1, <3>1, <3>2
      <3>4. drives' \in [open : BOOLEAN, at : Dirs \cup {Nobody}, hiddenToo : BOOLEAN, due : SUBSET Dirs,
                         told : [Dirs -> Nat]]
        BY <1>2, <3>1, <3>2, <3>3 DEF DrivesType
      <3>5. Dirs' = Dirs
        BY DEF Dirs
      <3> QED
        BY <3>4, <3>5 DEF DrivesType
    <2>5. \A u \in Dirs : drives'.told[u] = IF u = drives.at THEN 1 ELSE drives.told[u]
      BY <1>7, <1>8, <2>2
    <2>6. after # Nobody => /\ after \in next /\ after \in Mounted /\ after \in Dirs /\ Shown(after)
                            /\ PlaceOf(drives.at) < PlaceOf(after)
      BY <1>3, <1>4, <1>10
    <2>7. AtDrive'
      BY <1>5, <1>6, <2>2, <2>6 DEF AtDrive, Shown, Here
    <2>8. ToldDrives'
      <3> SUFFICES ASSUME NEW u \in Dirs
                   PROVE  /\ drives'.told[u] <= 1
                          /\ drives'.told[u] > 0 => /\ u \in Here /\ Shown(u)
                                                    /\ after # Nobody => PlaceOf(u) < PlaceOf(after)
        BY <1>5, <1>6, <2>2 DEF ToldDrives, Shown
      <3>1. CASE u = drives.at
        BY <1>7, <2>5, <2>6, <3>1
      <3>2. CASE u # drives.at
        <4>1. drives'.told[u] = drives.told[u]
          BY <2>5, <3>2
        <4>2. /\ drives.told[u] <= 1
              /\ drives.told[u] > 0 => u \in Here /\ Shown(u) /\ PlaceOf(u) < PlaceOf(drives.at)
          BY <1>1, <1>2 DEF ToldDrives
        <4>3. PlaceOf(u) \in Nat /\ (after # Nobody => PlaceOf(after) \in Nat)
          BY <1>9, <2>6
        <4> QED
          BY <1>7, <2>6, <4>1, <4>2, <4>3
      <3> QED
        BY <3>1, <3>2
    <2>9. DueDrives'
      <3> SUFFICES ASSUME NEW u \in drives.due
                   PROVE  /\ u \in Here /\ IsDrive(u)
                          /\ drives'.told[u] = 1 \/ (after # Nobody /\ PlaceOf(after) <= PlaceOf(u))
        BY <1>5, <1>6, <2>2 DEF DueDrives
      <3>1. /\ u \in Here /\ IsDrive(u) /\ u \in Dirs
            /\ drives.told[u] = 1 \/ PlaceOf(drives.at) <= PlaceOf(u)
        BY <1>2 DEF DueDrives, DrivesType
      <3>2. CASE u = drives.at
        BY <2>5, <3>1, <3>2
      <3>3. CASE u # drives.at /\ drives.told[u] = 1
        BY <2>5, <3>1, <3>3
      <3>4. CASE u # drives.at /\ PlaceOf(drives.at) <= PlaceOf(u)
        <4>1. PlaceOf(u) # PlaceOf(drives.at) /\ PlaceOf(u) \in Nat
          BY <1>7, <1>9, <1>12, <3>1, <3>4
        <4>2. PlaceOf(u) > PlaceOf(drives.at)
          BY <1>7, <3>4, <4>1
        <4>3. u \in next
          BY <1>11, <4>2
        <4> QED
          BY <1>4, <3>1, <4>3
      <3> QED
        BY <3>1, <3>2, <3>3, <3>4
    <2> QED
      BY <2>4, <2>7, <2>8, <2>9 DEF DriveInv
  <1>14. MountInv' /\ DirInv' /\ ListInv' /\ FileInv'
    BY <1>1, MountsKept, DirKept, ListKept, FilesKept DEF VfsInv
  <1> QED
    BY <1>13, <1>14 DEF VfsInv

LEMMA DrivesClose ==
    ASSUME VfsInv, VfsDrivesClose
    PROVE  VfsInv'
  <1>1. drives' = NoDrives /\ UNCHANGED <<mountVars, cwdVars, at, fileVars, listing>>
    BY DEF VfsDrivesClose
  <1>2. DriveInv'
    BY <1>1 DEF NoDrives, DriveInv, DrivesType, Dirs
  <1>3. MountInv' /\ DirInv' /\ ListInv' /\ FileInv'
    BY <1>1, MountsKept, DirKept, ListKept, FilesKept DEF VfsInv
  <1> QED
    BY <1>2, <1>3 DEF VfsInv

-----------------------------------------------------------------------------
(* The theorem *)

LEMMA VfsSteps == FileWindows = {} /\ VfsInv /\ [VfsNext]_vfsVars => VfsInv'
  <1> SUFFICES ASSUME FileWindows = {}, VfsInv, [VfsNext]_vfsVars PROVE VfsInv'
    OBVIOUS
  <1>1. (\A p \in FullPaths : p \in Path) /\ (\A p \in Relative : p \in Path)
    BY PathsFact
  <1>2. TRUE \in BOOLEAN /\ FALSE \in BOOLEAN
    OBVIOUS
  <1>3. CASE \E f \in FS : VfsMount(f) \/ VfsUnmount(f)
    BY <1>3, Mounts, Unmounts
  <1>4. CASE \E mode \in {"r", "w", "a"}, granted \in BOOLEAN : \E p \in FullPaths : VfsOpen(p, FALSE, mode, granted)
    BY <1>1, <1>2, <1>4, Opens
  <1>5. CASE \E mode \in {"r", "w", "a"}, granted \in BOOLEAN : \E p \in Relative : VfsOpen(p, TRUE, mode, granted)
    BY <1>1, <1>2, <1>5, Opens
  <1>6. CASE \E file \in files : VfsWrite(file) \/ VfsClose(file)
    BY <1>6, Writes, Closes
  <1>7. CASE \E p \in FullPaths : VfsChange(p, FALSE) \/ VfsOpendir(p)
    BY <1>1, <1>2, <1>7, Changes, Opendirs, Zenon
  <1>8. CASE \E p \in Relative : VfsChange(p, TRUE)
    BY <1>1, <1>2, <1>8, Changes
  <1>9. CASE \E from, to \in FullPaths : VfsRename(from, to)
    BY <1>1, <1>2, <1>9, Changes DEF VfsRename
  <1>10. CASE \E granted \in BOOLEAN : \E name \in FileNames \cup Devices : VfsChdirOn(name, granted)
    BY <1>10, ChdirsOn
  <1>11. CASE \E granted \in BOOLEAN : \E p \in FullPaths : VfsChdir(p, FALSE, granted)
    <2>1. PICK granted \in BOOLEAN, p \in FullPaths : VfsChdir(p, FALSE, granted)
      BY <1>11
    <2>2. p \in FullPaths \cup Relative
      OBVIOUS
    <2> QED
      BY <1>2, <2>1, <2>2, Chdirs, Zenon
  <1>12. CASE \E granted \in BOOLEAN : \E p \in Relative : VfsChdir(p, TRUE, granted)
    <2>1. PICK granted \in BOOLEAN, p \in Relative : VfsChdir(p, TRUE, granted)
      BY <1>12
    <2> QED
      BY <1>2, <2>1, Chdirs
  <1>13. CASE VfsReaddir \/ VfsClosedir
    BY <1>13, Readdirs, Closedirs
  <1>14. CASE \E hiddenToo \in BOOLEAN : VfsDrivesOpen(hiddenToo)
    BY <1>14, DrivesOpen
  <1>15. CASE VfsDrivesRead \/ VfsDrivesClose
    BY <1>15, DrivesRead, DrivesClose
  <1>16. CASE UNCHANGED vfsVars
    BY <1>16, Stutters
  <1> QED
    BY <1>3, <1>4, <1>5, <1>6, <1>7, <1>8, <1>9, <1>10, <1>11, <1>12, <1>13, <1>14, <1>15, <1>16 DEF VfsNext

\* Whatever is mounted, opened, changed and listed, in every order, by clients that do none of
\* what FileWindows names: paths lead to the nearest mount, both current directories are one,
\* listings and the enumeration of the drives are complete and without repetition, changes are
\* announced, and a device has one owner (vfs.c, fs_device.c).
THEOREM VfsIsSound ==
    ASSUME FileWindows = {}
    PROVE  VfsSpec => []VfsSound
  <1>1. VfsInv /\ [VfsNext]_vfsVars => VfsInv'
    BY VfsSteps
  <1> QED
    BY <1>1, Starts, InvIsSound, PTL DEF VfsSpec

=============================================================================
