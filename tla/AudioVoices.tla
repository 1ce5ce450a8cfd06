----------------------------- MODULE AudioVoices -----------------------------
(***************************************************************************)
(* Who plays, and who ends a note: the voice pools, the pending gate-offs  *)
(* and the keyboard notes of the audio callback (src/audio.rs) while the   *)
(* UI presses keys, turns knobs and adds and deletes tracks.               *)
(*                                                                         *)
(* There is one custom engine, which all custom tracks share; a sampler    *)
(* track has voices of its own.  A logical id is the pair of the pool (0   *)
(* for the engine, else the identity of the track) and the voice.  A sound *)
(* stands for the parameters of an instrument, and for their fingerprint.  *)
(* A chord is as many steps in one block.  Chops, which strike a sampler   *)
(* again, effects and routing are left out; keys are not quantized.        *)
(* A UI operation is one step, as is each part of the callback: its start, *)
(* a keyboard message, the countdowns, a dispatched event.                 *)
(***************************************************************************)
EXTENDS VoicePool, SequencesExt

CONSTANTS Lineups,    \* kinds of the tracks, "engine" or "sampler", at the start
          MaxPoly,    \* largest max_polyphony
          DefaultPoly, \* max_polyphony of an unused lane (6 in the code)
          Lengths,    \* gate lengths, in callbacks
          Locks,      \* sounds that the steps lock
          Budgets     \* bounds: how often what happens

Counted == {"step", "key", "edit", "set", "tweak", "switch"}

ASSUME VoicesAssumption ==
  /\ IsFiniteSet(Tracks) /\ Tracks = 1..Cardinality(Tracks)
  /\ \A k \in Lineups : k \in Seq({"engine", "sampler"}) /\ Len(k) \in Tracks
  /\ 1 \in Prints
  /\ MaxPoly \in Voices /\ DefaultPoly \in 1..MaxPoly /\ Lengths \subseteq Nat \ {0} /\ Locks \subseteq Prints
  /\ Budgets \subseteq [Counted -> Nat]

VARIABLES
  \* UI
  tracks,      \* per track: kind, identity, polyphonic, max_polyphony, default sound
  topology,    \* topology_epoch
  pattern,     \* current_pattern
  held,        \* the keys down, with the tracks they were sent to
  inbox,       \* keyboard_rx
  left,        \* what is left of the budget
  \* nodes
  gate,        \* logical ids whose gate is open (a sampler's: by a key)
  loaded,      \* the sound in each synth node of the engine
  \* callback
  phase,       \* where it is
  seen,        \* last_num_tracks, last_topology_epoch, last_pattern, and whether
               \* the engine's pool has got its voices
  pool,        \* the engine's pool
  spools,      \* voice_pools, and whose logical ids they hold
  table,       \* active_keyboard_notes
  pending,     \* gate_off_state, in callbacks; 0: none
  \* history
  by,          \* what opened the gate of each engine voice last
  heard,       \* of the last note of the engine: the sound asked for and got,
               \* and told
  told         \* the sound that the UI has last given to all nodes of the engine

uiVars == <<tracks, topology, pattern, held, told>>
callbackVars == <<phase, seen, pool, spools, table, pending, by, heard>>
vars == <<uiVars, inbox, left, gate, loaded, callbackVars>>

NewTrack(kind, id) == [kind |-> kind, id |-> id, poly |-> TRUE, cap |-> DefaultPoly,
                       sound |-> 1]
Kind(t) == IF t \in DOMAIN tracks THEN tracks[t].kind ELSE "none"
EngineIds == {<<0, v>> : v \in Voices}
NoPending == [t \in Tracks |-> [v \in Voices |-> 0]]
NoNotes == [t \in Tracks |-> {}]
Synced(t) == [pool |-> NewSamplerPool,
              of |-> IF Kind(t) = "sampler" THEN tracks[t].id ELSE 0]

Users(ts) == {t \in DOMAIN ts : ts[t].kind = "engine"}
Seen == [count |-> Len(tracks), topology |-> topology, pattern |-> -1,
         engine |-> Users(tracks) # {}]

Init ==
  /\ \E kinds \in Lineups : tracks = [t \in DOMAIN kinds |-> NewTrack(kinds[t], t)]
  /\ topology = 0 /\ pattern = 0 /\ held = {} /\ inbox = << >> /\ left \in Budgets
  /\ gate = {} /\ loaded = [v \in Voices |-> 1]
  /\ phase = "idle"
  /\ seen = Seen
  /\ pool = NewCustomPool
  /\ spools = [t \in Tracks |-> Synced(t)]
  /\ table = NoNotes /\ pending = NoPending
  /\ by = [v \in Voices |-> "nothing"]
  /\ heard = [asked |-> 1, got |-> 1, told |-> 1]
  /\ told = 1

May(what) == left[what] > 0 /\ left' = [left EXCEPT ![what] = @ - 1]
-----------------------------------------------------------------------------
(* The UI *)

\* send_instrument_param: the nodes follow the defaults of an only user.
Follows(ts) == Cardinality(Users(ts)) = 1
ToldBy(ts) == IF Follows(ts) THEN ts[CHOOSE t \in Users(ts) : TRUE].sound ELSE told
FollowedBy(ts) == IF Follows(ts) THEN [v \in Voices |-> ToldBy(ts)] ELSE loaded

\* The lanes behind t move down, but max_polyphony is not restored with them: it
\* stays in its lane (and the last lane's is reset).
Compacted(t) == [i \in 1..Len(tracks) - 1 |->
                   [RemoveAt(tracks, t)[i] EXCEPT !.cap = tracks[i].cap]]

\* delete_track, clear of the graph nodes and remove_track.
DeleteTrack(t) ==
  /\ May("edit") /\ t \in DOMAIN tracks /\ Len(tracks) > 1
  /\ tracks' = Compacted(t)
  /\ topology' = topology + 1
  /\ gate' = {lid \in gate : \E u \in DOMAIN tracks' :
                lid[1] = IF tracks'[u].kind = "engine" THEN 0 ELSE tracks'[u].id}
  /\ loaded' = FollowedBy(tracks') /\ told' = ToldBy(tracks')
  /\ UNCHANGED <<pattern, held, inbox, callbackVars>>

\* finish_track_registration; the first user of the engine gets new nodes.
AddTrack(kind) ==
  /\ May("edit") /\ Len(tracks) < Cardinality(Tracks)
  /\ tracks' = Append(tracks, NewTrack(kind, Cardinality(Tracks) + left["edit"]))
  /\ topology' = topology + 1
  /\ LET new == kind = "engine" /\ Users(tracks) = {}
     IN /\ loaded' = IF new THEN [v \in Voices |-> 1] ELSE loaded
        /\ told' = IF new THEN 1 ELSE told
  /\ UNCHANGED <<pattern, held, inbox, gate, callbackVars>>

SetPolyphony(t) ==
  /\ May("set") /\ t \in DOMAIN tracks
  /\ \E p \in BOOLEAN, c \in 1..MaxPoly :
       tracks' = [tracks EXCEPT ![t].poly = p, ![t].cap = c]
  /\ UNCHANGED <<topology, pattern, held, told, inbox, gate, loaded, callbackVars>>

TweakDefault(t, sound) ==
  /\ May("tweak") /\ Kind(t) = "engine"
  /\ tracks' = [tracks EXCEPT ![t].sound = sound]
  /\ loaded' = FollowedBy(tracks') /\ told' = ToldBy(tracks')
  /\ UNCHANGED <<topology, pattern, held, inbox, gate, callbackVars>>

SwitchPattern ==
  /\ May("switch")
  /\ pattern' = 1 - pattern
  /\ UNCHANGED <<tracks, topology, held, told, inbox, gate, loaded, callbackVars>>

\* Keys that are held have different notes (no octave shift in between).
PressKey(t, n) ==
  /\ May("key") /\ t \in DOMAIN tracks
  /\ \A k \in held : k.note # n
  /\ held' = held \cup {[track |-> t, note |-> n]}
  /\ inbox' = Append(inbox, [track |-> t, note |-> n, on |-> TRUE])
  /\ UNCHANGED <<tracks, topology, pattern, told, gate, loaded, callbackVars>>

\* "Send note-off to the exact tracks that received the original note-on."
ReleaseKey(k) ==
  /\ k \in held
  /\ held' = held \ {k}
  /\ inbox' = Append(inbox, [track |-> k.track, note |-> k.note, on |-> FALSE])
  /\ UNCHANGED <<tracks, topology, pattern, told, left, gate, loaded, callbackVars>>

UI == \/ \E t \in Tracks : DeleteTrack(t) \/ SetPolyphony(t)
      \/ \E kind \in {"engine", "sampler"} : AddTrack(kind)
      \/ \E t \in Tracks, sound \in Prints : TweakDefault(t, sound)
      \/ SwitchPattern
      \/ \E t \in Tracks, n \in Notes : PressKey(t, n)
      \/ \E k \in held : ReleaseKey(k)
-----------------------------------------------------------------------------
(* The callback *)

CallbackElse == UNCHANGED <<uiVars, left>>

ResetDue == seen.count # Len(tracks) \/ seen.topology # topology

\* Mutant of ResetForTopology: the gates stay open.
ResetKeepsGates ==
  /\ phase = "idle" /\ ResetDue
  /\ phase' = "keys"
  /\ pool' = NewCustomPool
  /\ spools' = [t \in Tracks |-> Synced(t)]
  /\ table' = NoNotes
  /\ pending' = NoPending
  /\ seen' = Seen
  /\ UNCHANGED <<inbox, gate, loaded, by, heard>> /\ CallbackElse

\* reset_audio_runtime_for_track_topology
ResetForTopology ==
  /\ phase = "idle" /\ ResetDue
  /\ phase' = "keys"
  /\ gate' = gate \ EngineIds
  /\ pool' = NewCustomPool
  /\ spools' = [t \in Tracks |-> Synced(t)]
  /\ table' = NoNotes
  /\ pending' = NoPending
  /\ seen' = Seen
  /\ UNCHANGED <<inbox, loaded, by, heard>> /\ CallbackElse

Begin ==
  /\ phase = "idle" /\ ~ ResetDue
  /\ phase' = "keys"
  /\ UNCHANGED <<inbox, gate, loaded, seen, pool, spools, table, pending, by, heard>>
  /\ CallbackElse

\* Mutant of Cancelled: only the first tracker is searched.
CancelledInFirst(v) == [pending EXCEPT ![1][v] = 0]

\* cancel_gate_off_for_lid
Cancelled(v) == [t \in Tracks |-> [pending[t] EXCEPT ![v] = 0]]

\* clear_active_keyboard_note_by_lid and the rest of store_active_keyboard_note; as
\* a voice has one record at most, a track's records never run out of room.
Stored(t, n, lid) ==
  LET others == [u \in Tracks |-> {r \in table[u] : r.lid # lid}]
  IN [others EXCEPT ![t] = {r \in @ : r.note # n} \cup {[note |-> n, lid |-> lid]}]

\* Mutant of Strike: a voice gets its sound once.
StrikeLoadsOnce(t, n, sound, v) ==
  /\ pool' = Allocated(pool, v, t, n, sound)
  /\ loaded' = IF pool.print[v] = NoPrint THEN [loaded EXCEPT ![v] = sound] ELSE loaded
  /\ gate' = gate \cup {<<0, v>>}
  /\ heard' = [asked |-> sound, got |-> loaded'[v], told |-> told]
  /\ UNCHANGED <<phase, seen, spools>>

\* A note of the engine: a voice, its sound if it has another, and the gate.
Strike(t, n, sound, v) ==
  /\ pool' = Allocated(pool, v, t, n, sound)
  /\ loaded' = IF pool.print[v] = sound THEN loaded ELSE [loaded EXCEPT ![v] = sound]
  /\ gate' = gate \cup {<<0, v>>}
  /\ heard' = [asked |-> sound, got |-> loaded'[v], told |-> told]
  /\ UNCHANGED <<phase, seen, spools>>

TakeKey == phase = "keys" /\ inbox # << >> /\ inbox' = Tail(inbox) /\ CallbackElse

\* As instrument_type_flags tells it: a lane that a deletion has emptied since the
\* reset still has a sampler's pool, and is mono.
OnEngine(t) == Kind(t) = "engine" /\ seen.engine
OnSampler(t) == Kind(t) # "engine" /\ spools[t].of # 0
PolyOf(t) == t \in DOMAIN tracks /\ tracks[t].poly
SamplerNode(lid) == \E t \in DOMAIN tracks : tracks[t].kind = "sampler" /\ tracks[t].id = lid[1]

\* The track is gone, it has no voices yet, or no note of this key is known.
IgnoreKey ==
  LET k == Head(inbox) IN
  /\ TakeKey
  /\ \/ k.track > seen.count
     \/ ~ k.on /\ \A r \in table[k.track] : r.note # k.note
     \/ k.on /\ ~ OnEngine(k.track) /\ ~ OnSampler(k.track)
  /\ UNCHANGED <<gate, loaded, callbackVars>>

KeyOnEngine ==
  LET k == Head(inbox)
      v == Pick(pool, k.track, k.note, tracks[k.track].poly, tracks[k.track].cap)
  IN /\ TakeKey
     /\ k.on /\ k.track <= seen.count /\ OnEngine(k.track)
     /\ Strike(k.track, k.note, tracks[k.track].sound, v)
     /\ pending' = Cancelled(v)
     /\ table' = Stored(k.track, k.note, <<0, v>>)
     /\ by' = [by EXCEPT ![v] = "key"]

\* The gate of a sampler's note from a key is endless.
KeyOnSampler ==
  LET k == Head(inbox)
      s == spools[k.track]
      lid == <<s.of, PickSampler(s.pool, k.note, PolyOf(k.track))>>
  IN /\ TakeKey
     /\ k.on /\ k.track <= seen.count /\ OnSampler(k.track)
     /\ spools' = [spools EXCEPT ![k.track].pool = Struck(@, k.note, PolyOf(k.track))]
     /\ gate' = IF SamplerNode(lid) THEN gate \cup {lid} ELSE gate
     /\ table' = Stored(k.track, k.note, lid)
     /\ UNCHANGED <<loaded, phase, seen, pool, pending, by, heard>>

KeyOff ==
  LET k == Head(inbox) IN
  /\ TakeKey
  /\ ~ k.on /\ k.track <= seen.count
  /\ \E r \in table[k.track] :
       /\ r.note = k.note
       /\ table' = [table EXCEPT ![k.track] = @ \ {r}]
       /\ IF Kind(k.track) = "engine"
            THEN /\ pool' = IF r.lid[1] = 0 THEN Released(pool, {r.lid[2]}) ELSE pool
                 /\ gate' = gate \ ({r.lid} \cap EngineIds)
                 /\ UNCHANGED spools
            ELSE /\ spools' = IF r.lid[1] = spools[k.track].of
                                THEN [spools EXCEPT ![k.track].pool.active = @ \ {r.lid[2]}]
                                ELSE spools
                 /\ gate' = gate \ ({r.lid} \ EngineIds)
                 /\ UNCHANGED pool
  /\ UNCHANGED <<loaded, phase, seen, pending, by, heard>>

\* The rest of the callback before it renders: the fingerprints are forgotten
\* when the pattern is another, gate-offs count down, voices that are no longer
\* needed are disabled.
Expired == {v \in Voices : \E t \in 1..seen.count : pending[t][v] = 1}
ExpiredPool(p) == Released(p, {v \in Voices : \E t \in 1..seen.count :
                                 pending[t][v] = 1 /\ Kind(t) = "engine"})

Housekeep ==
  /\ phase = "keys" /\ inbox = << >>
  /\ phase' = "render"
  /\ LET p == IF seen.pattern # pattern THEN Forgotten(pool) ELSE pool
     IN pool' = Shrunk(ExpiredPool(p))
  /\ seen' = [seen EXCEPT !.pattern = pattern]
  /\ pending' = [t \in Tracks |-> [v \in Voices |->
                   IF t <= seen.count /\ pending[t][v] > 0 THEN pending[t][v] - 1
                                                           ELSE pending[t][v]]]
  /\ gate' = gate \ {<<0, v>> : v \in Expired}
  /\ UNCHANGED <<inbox, loaded, spools, table, by, heard>> /\ CallbackElse

\* fire_resolved for a note of a step; the gate of the track may be off.  The
\* scheduler resolves a step some blocks ahead: its sound is taken as today's.
StepOnEngine(t, n, sound, len, gated) ==
  LET v == Pick(pool, t, n, tracks[t].poly, tracks[t].cap)
  IN /\ phase = "render" /\ left["step"] > 0 /\ OnEngine(t)
     /\ sound \in {tracks[t].sound} \cup Locks
     /\ Strike(t, n, sound, v)
     /\ pending' = IF gated THEN [Cancelled(v) EXCEPT ![t][v] = len] ELSE Cancelled(v)
     /\ by' = [by EXCEPT ![v] = IF gated THEN "step" ELSE "endless step"]
     /\ left' = [left EXCEPT !["step"] = @ - 1]
     /\ UNCHANGED <<uiVars, inbox, table>>

\* The node closes the gate of such a note by itself.
StepOnSampler(t, n) ==
  LET s == spools[t]
      v == PickSampler(s.pool, n, tracks[t].poly)
  IN /\ phase = "render" /\ left["step"] > 0 /\ Kind(t) = "sampler" /\ OnSampler(t)
     /\ spools' = [spools EXCEPT ![t].pool = Struck(@, n, tracks[t].poly)]
     /\ gate' = gate \ {<<s.of, v>>}
     /\ left' = [left EXCEPT !["step"] = @ - 1]
     /\ UNCHANGED <<uiVars, inbox, loaded, phase, seen, pool, table, pending, by, heard>>

End ==
  /\ phase = "render"
  /\ phase' = "idle"
  /\ UNCHANGED <<inbox, gate, loaded, seen, pool, spools, table, pending, by, heard>>
  /\ CallbackElse

Callback ==
  \/ ResetForTopology \/ Begin
  \/ IgnoreKey \/ KeyOnEngine \/ KeyOnSampler \/ KeyOff
  \/ Housekeep \/ End
  \/ \E t \in Tracks, n \in Notes :
       \/ StepOnSampler(t, n)
       \/ \E sound \in Prints, len \in Lengths, gated \in BOOLEAN :
            StepOnEngine(t, n, sound, len, gated)

Next == UI \/ Callback

Spec == Init /\ [][Next]_vars
-----------------------------------------------------------------------------
(* Properties *)

Track == [kind : {"engine", "sampler"}, id : Nat, poly : BOOLEAN, cap : 1..MaxPoly,
          sound : Prints]
Key == [track : Tracks, note : Notes]
Message == [track : Tracks, note : Notes, on : BOOLEAN]
Record == [note : Notes, lid : Nat \X Voices]
UiType ==
  /\ tracks \in Seq(Track) /\ Len(tracks) \in Tracks
  /\ topology \in Nat /\ pattern \in {0, 1} /\ told \in Prints
  /\ held \subseteq Key
  /\ inbox \in Seq(Message)
  /\ left \in [Counted -> Nat]
NodeType == gate \subseteq Nat \X Voices /\ loaded \in [Voices -> Prints]
CallbackType ==
  /\ phase \in {"idle", "keys", "render"}
  /\ seen \in [count : Tracks, topology : Nat, pattern : {-1, 0, 1}, engine : BOOLEAN]
  /\ pool \in CustomPool
  /\ spools \in [Tracks -> [pool : SamplerPool, of : Nat]]
  /\ table \in [Tracks -> SUBSET Record]
  /\ pending \in [Tracks -> [Voices -> Nat]]
  /\ by \in [Voices -> {"nothing", "key", "step", "endless step"}]
  /\ heard \in [asked : Prints, got : Prints, told : Prints]
TypeOK == UiType /\ NodeType /\ CallbackType

\* A gate-off that counts down ends the step that its voice plays, whoever used
\* the voice before: cancel_gate_off_for_lid reaches the trackers of all tracks,
\* so no note is cut by the gate-off of an older one.
OffsBelong ==
  \A v \in Voices :
    /\ Cardinality({t \in Tracks : pending[t][v] > 0}) <= 1
    /\ (\E t \in Tracks : pending[t][v] > 0) =>
         by[v] = "step" \/ <<0, v>> \notin gate

\* Somebody will close the gate: a countdown of a live track, or a key that is
\* still down or whose note-off is on its way.
WillEnd(lid) ==
  \/ \E t \in DOMAIN tracks : lid[1] = 0 /\ pending[t][lid[2]] > 0
  \/ \E t \in DOMAIN tracks : \E r \in table[t] :
       /\ r.lid = lid
       /\ \/ [track |-> t, note |-> r.note] \in held
          \/ [track |-> t, note |-> r.note, on |-> FALSE] \in Range(inbox)

\* No note of the engine hangs, through steals, mono tracks and topology changes
\* (the comment at audio.rs line 566: "so notes do not hang after tracks are
\* compacted"), unless the track's gate is off.
EngineNotesEnd ==
  ResetDue \/ \A lid \in gate \cap EngineIds : by[lid[2]] = "endless step" \/ WillEnd(lid)

\* The same of a sampler: "keyboard release always triggers the release phase"
\* (sampler.rs line 231).
SamplerNotesEnd == ResetDue \/ \A lid \in gate \ EngineIds : WillEnd(lid)

\* Every voice that sounds is run: enabled_voice_count covers each voice whose gate
\* is open, and leaves none behind whose release it was running.  (A topology
\* change cuts the releases.)
SoundingIsRun ==
  \A v \in Voices : <<0, v>> \in gate' \/ (v <= pool.enabled /\ v \in Releasing(pool'))
                      => v <= pool'.enabled
EnabledCovers == [][SoundingIsRun]_vars

\* A track at its max_polyphony takes no further voice for itself.
TakesBelowCap ==
  \A t \in Tracks : Cardinality(Owned(pool', t)) > Cardinality(Owned(pool, t))
                      => Cardinality(Owned(pool, t)) < tracks[t].cap
CapHolds == [][TakesBelowCap]_vars

\* A note cuts off the note of another track only if every voice is sounding and
\* its own track has none to give.
CutsInNeed ==
  \A v \in pool.active :
    pool'.owner[v] \notin {pool.owner[v], NoOne}
      => Owned(pool, pool'.owner[v]) = {} /\ pool.active = Voices
NoTrackCutsAnother == [][CutsInNeed]_vars

\* A note sounds as its step or track asks, or else as the UI had last told all
\* nodes of the engine: never as another step, track or pattern has asked before.
\* The fingerprint stands for "the effective sound config that a voice is
\* currently loaded with" (docs/custom-engine-preset-spec.md line 67), but the UI
\* does not touch it when it turns a knob of the engine's only user
\* (ui/synth.rs line 1139): a step with a lock that its voice has played before
\* then gets the knob's sound (audio.rs line 1980).  That one exception is named.
PlaysItsSound == heard.got \in {heard.asked, heard.told}
=============================================================================
