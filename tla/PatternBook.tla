----------------------------- MODULE PatternBook -----------------------------
(***************************************************************************)
(* What the pattern bank promises its player, in the player's terms: a     *)
(* book of pages, one page per pattern; a page holds, for every track BY   *)
(* NAME, what the track plays and how its sound is set, and an effect that *)
(* listens to another track names that track.  One page is open.  There is *)
(* no slot, lane, snapshot or selection index here: PatternBank implements *)
(* this over compacting lanes and saved snapshots.                         *)
(* How many notes a track may sound is the exception: the program keeps it *)
(* by PLACE, the same for every page, and neither turning a page nor       *)
(* taking a track out moves it ("the deleted lane disappears ..., higher   *)
(* lanes shift down immediately", src/sequencer/state.rs, is not so here). *)
(***************************************************************************)
EXTENDS Integers, FiniteSets, Sequences, SequencesExt, Functions

CONSTANTS
    Tracks,     \* names of tracks
    Effects,    \* names of effects
    FreshTrack, \* what a page says of a track just added
    FreshSetting, \* the settings of effects just loaded
    Off         \* an effect that listens to no track

VARIABLES
    pages,      \* a sequence: page -> track -> its entry
    cur,        \* the open page
    limits      \* a sequence: place -> the notes its track may sound, or 0

bookVars == <<pages, cur, limits>>

Known == DOMAIN pages[cur]

EveryPage(Change(_)) == pages' = [p \in DOMAIN pages |-> Change(pages[p])]

BookInit == Len(pages) = 1 /\ cur = 1 /\ \A i \in DOMAIN limits : limits[i] = 0

\* The player changes one entry of the open page, and no effect comes or goes.
Edit(t) ==
    /\ DOMAIN pages'[cur] = Known
    /\ pages' = [pages EXCEPT ![cur][t] = pages'[cur][t]]
    /\ LET chain(book) == book[cur][t].chain IN
       /\ DOMAIN chain(pages') = DOMAIN chain(pages)
       /\ \A k \in DOMAIN chain(pages) : chain(pages')[k].fx = chain(pages)[k].fx
    /\ UNCHANGED <<cur, limits>>

TurnTo(p) == p # cur /\ cur' = p /\ UNCHANGED <<pages, limits>>

CopyPage == pages' = Append(pages, pages[cur]) /\ cur' = Len(pages) + 1 /\ UNCHANGED limits

\* The player says how many notes a track may sound, on every page.
SetLimit(i) ==
    /\ DOMAIN limits' = DOMAIN limits
    /\ limits' = [limits EXCEPT ![i] = limits'[i]]
    /\ UNCHANGED <<pages, cur>>

TearOut ==
    /\ Len(pages) > 1
    /\ pages' = RemoveAt(pages, cur)
    /\ cur' = IF cur = Len(pages) THEN cur - 1 ELSE cur
    /\ UNCHANGED limits

NewTrack(t) ==
    LET Added(page) == [u \in Known \cup {t} |-> IF u = t THEN FreshTrack ELSE page[u]]
    IN  EveryPage(Added) /\ limits' = Append(limits, 0) /\ UNCHANGED cur

\* Where an effect listened to the track that goes, it listens to none.  The
\* limit that goes is the one of the last place, whichever track goes.
DropTrack(t) ==
    LET Deaf(entry) ==
            [entry EXCEPT !.chain = [k \in DOMAIN @ |->
                                        IF @[k].set = t THEN [@[k] EXCEPT !.set = Off] ELSE @[k]]]
        Dropped(page) == [u \in Known \ {t} |-> Deaf(page[u])]
    IN  Known # {t} /\ EveryPage(Dropped) /\ limits' = Front(limits) /\ UNCHANGED cur

PutEffect(t, fx) ==
    LET Put(page) == [page EXCEPT ![t].chain = Append(@, [fx |-> fx, set |-> FreshSetting[fx]])]
    IN  EveryPage(Put) /\ UNCHANGED <<cur, limits>>

TakeEffect(t, k) ==
    LET Taken(page) == [page EXCEPT ![t].chain = RemoveAt(@, k)]
    IN  EveryPage(Taken) /\ UNCHANGED <<cur, limits>>

ToEveryPage(t) ==
    LET Told(page) == [page EXCEPT ![t] = pages[cur][t]]
    IN  EveryPage(Told) /\ UNCHANGED <<cur, limits>>

BookNext ==
    \/ \E p \in DOMAIN pages : TurnTo(p)
    \/ CopyPage
    \/ \E i \in DOMAIN limits : SetLimit(i)
    \/ TearOut
    \/ \E t \in Tracks \ Known : NewTrack(t)
    \/ \E t \in Known : \/ Edit(t)
                        \/ DropTrack(t)
                        \/ ToEveryPage(t)
                        \/ \E fx \in Effects : PutEffect(t, fx)
                        \/ \E k \in DOMAIN pages[cur][t].chain : TakeEffect(t, k)

BookSpec == BookInit /\ [][BookNext]_bookVars
=============================================================================
