------------------------------ MODULE VoicePool ------------------------------
(***************************************************************************)
(* The two kinds of voice pools of the audio callback, as values and the   *)
(* functions that replace them: CustomEnginePool, which the tracks of an   *)
(* engine share (src/audio.rs), and VoicePool, which a sampler track has   *)
(* for itself (src/voice.rs).                                              *)
(*                                                                         *)
(* A voice is its index, its logical id and its synth node at once.  Ages  *)
(* only serve to find the oldest of some voices, with ties for the lower   *)
(* index: a pool keeps its voices in the order of their ages instead.      *)
(* tail is what is left of a voice's release, in callbacks: 0 when it is   *)
(* not releasing.                                                          *)
(***************************************************************************)
EXTENDS Integers, Sequences, FiniteSets, SequencesExt

CONSTANTS NumVoices,  \* voices of a pool (MAX_VOICES, 12)
          Tracks,     \* the track indices
          Notes,      \* resolved transposes
          Prints,     \* sound fingerprints
          ReleaseLen   \* callbacks that a release lasts (20 s in the code)

ASSUME PoolAssumption ==
  /\ NumVoices \in Nat \ {0} /\ ReleaseLen \in Nat \ {0}
  /\ Tracks \subseteq Nat \ {0} /\ Notes \subseteq Int /\ 0 \in Notes
  /\ Prints \subseteq Nat \ {0}

Voices == 1..NumVoices
NoOne == 0      \* assigned_track: None
NoPrint == 0    \* fingerprint: 0

ByIndex == [i \in Voices |-> i]
Oldest(order, S) == order[CHOOSE i \in DOMAIN order :
                            /\ order[i] \in S
                            /\ \A j \in 1..i - 1 : order[j] \notin S]
MakeYoungest(order, v) == Append(RemoveAt(order, CHOOSE i \in DOMAIN order : order[i] = v), v)
Lowest(S) == Oldest(ByIndex, S)
Highest(S) == CHOOSE v \in S : \A w \in S : w <= v
-----------------------------------------------------------------------------
(* CustomEnginePool *)

CustomPool == [order : Seq(Voices), active : SUBSET Voices, tail : [Voices -> 0..ReleaseLen + 1],
               note : [Voices -> Notes], owner : [Voices -> Tracks \cup {NoOne}],
               print : [Voices -> Prints \cup {NoPrint}], enabled : Voices]

NewCustomPool == [order |-> ByIndex, active |-> {}, tail |-> [v \in Voices |-> 0],
                  note |-> [v \in Voices |-> 0], owner |-> [v \in Voices |-> NoOne],
                  print |-> [v \in Voices |-> NoPrint], enabled |-> 1]

Owned(pool, t) == {v \in Voices : pool.owner[v] = t}
Releasing(pool) == {v \in Voices \ pool.active : pool.tail[v] > 0}
Idle(pool) == Voices \ (pool.active \cup Releasing(pool))
SameNote(pool, t, n) == {v \in Owned(pool, t) \cap pool.active : pool.note[v] = n}

\* Mutant of PreferredAtCap: a free voice comes before one of the track's own.
FreeAtCap(pool, t) ==
  LET mine == Owned(pool, t)
  IN <<mine \cap Idle(pool), Owned(pool, NoOne) \cap Idle(pool), mine, Voices>>

\* Mutant of PreferredBelowCap: the oldest voice comes before the track's own.
OldestBelowCap(pool, t) ==
  LET mine == Owned(pool, t)
      free == Owned(pool, NoOne)
  IN <<mine \cap Idle(pool), free \cap Idle(pool), Idle(pool), Voices>>

\* The groups of voices in which allocate_voice looks, best first.
PreferredAtCap(pool, t) ==
  LET mine == Owned(pool, t)
  IN <<mine \cap Idle(pool), mine \cap Releasing(pool), mine, Voices>>
PreferredBelowCap(pool, t) ==
  LET mine == Owned(pool, t)
      free == Owned(pool, NoOne)
      others == Voices \ (mine \cup free)
  IN <<mine \cap Idle(pool), free \cap Idle(pool), others \cap Idle(pool),
       mine \cap Releasing(pool), mine, others \cap Releasing(pool), Voices>>
Preferred(pool, t, cap) ==
  IF Cardinality(Owned(pool, t)) >= cap THEN PreferredAtCap(pool, t) ELSE PreferredBelowCap(pool, t)

FirstNonempty(groups) ==
  groups[CHOOSE i \in DOMAIN groups : groups[i] # {} /\ \A j \in 1..i - 1 : groups[j] = {}]

\* The voice that allocate_voice takes for a note of track t.
Pick(pool, t, n, poly, cap) ==
  CASE ~poly /\ Owned(pool, t) # {} -> Lowest(Owned(pool, t))
    [] poly /\ SameNote(pool, t, n) # {} -> Highest(SameNote(pool, t, n))
    [] OTHER -> Oldest(pool.order, FirstNonempty(Preferred(pool, t, cap)))

\* Mutant of Allocated: the index counts as the number.
AllocatedByIndex(pool, v, t, n, print) ==
  [pool EXCEPT !.order = MakeYoungest(@, v), !.active = @ \cup {v}, !.tail[v] = 0,
               !.note[v] = n, !.owner[v] = t, !.print[v] = print,
               !.enabled = IF v >= @ THEN v + 1 ELSE @]

\* allocate_voice, note_voice_allocated and the fingerprint that the caller stores.
Allocated(pool, v, t, n, print) ==
  [pool EXCEPT !.order = MakeYoungest(@, v), !.active = @ \cup {v}, !.tail[v] = 0,
               !.note[v] = n, !.owner[v] = t, !.print[v] = print,
               !.enabled = IF v > @ THEN v ELSE @]

\* release_voice_by_logical_id, of some voices: the tails start to run in the
\* next callback.
Released(pool, S) ==
  [pool EXCEPT !.active = @ \ S,
               !.tail = [v \in Voices |-> IF v \in S THEN ReleaseLen + 1 ELSE @[v]]]

\* Mutant of Shrunk: voices that are still releasing are disabled as well.
ShrunkAtOnce(pool) ==
  LET needed == Highest({1} \cup pool.active)
  IN [pool EXCEPT !.tail = [v \in Voices |-> IF pool.tail[v] > 0 THEN pool.tail[v] - 1 ELSE 0],
                  !.enabled = IF needed < @ THEN needed ELSE @]

\* shrink_released_voices, one callback later than the last time.
Shrunk(pool) ==
  LET tail == [v \in Voices |-> IF pool.tail[v] > 0 THEN pool.tail[v] - 1 ELSE 0]
      retained == {1} \cup pool.active \cup {v \in Voices : tail[v] > 0}
      needed == Highest(retained)
  IN [pool EXCEPT !.tail = tail, !.enabled = IF needed < @ THEN needed ELSE @]

\* invalidate_sound_cache
Forgotten(pool) == [pool EXCEPT !.print = [v \in Voices |-> NoPrint]]
-----------------------------------------------------------------------------
(* VoicePool, of a sampler *)

SamplerPool == [order : Seq(Voices), active : SUBSET Voices, note : [Voices -> Notes]]

NewSamplerPool == [order |-> ByIndex, active |-> {}, note |-> [v \in Voices |-> 0]]

\* allocate_voice_retriggering_same_note: a sounding note is struck again, else
\* the oldest inactive voice, else the oldest.
PickSampler(pool, n, poly) ==
  LET same == {v \in pool.active : pool.note[v] = n}
      inactive == Voices \ pool.active
  IN CASE ~poly \/ NumVoices = 1 -> 1
       [] poly /\ NumVoices > 1 /\ same # {} -> Lowest(same)
       [] OTHER -> Oldest(pool.order, IF inactive # {} THEN inactive ELSE Voices)

Struck(pool, n, poly) ==
  LET v == PickSampler(pool, n, poly)
  IN [pool EXCEPT !.order = MakeYoungest(@, v), !.active = @ \cup {v}, !.note[v] = n]
=============================================================================
