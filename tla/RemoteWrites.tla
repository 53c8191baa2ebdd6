---------------------------- MODULE RemoteWrites ----------------------------
(***************************************************************************)
(* A write from a phone: the Remote page (web/remote/app.js) that sends    *)
(* it and may send it once more, the connection that loses and delays it,  *)
(* and the server (services/remote_server.py) that gates it, runs it on a  *)
(* thread of the write pool and remembers how it ended.  An id stands for  *)
(* one tap of the user.  A call is one HTTP request: <<id, 1>> the first,  *)
(* <<id, 2>> the retry.  Several taps may be out at once, and a handler    *)
(* takes as long as it likes.                                              *)
(*                                                                         *)
(* The owner may turn writes on and off at any moment, so what a check of  *)
(* the switch finds is either.  The device makes other writes too, of      *)
(* which only what they do to this one's matters: they may fill its queue, *)
(* and their endings take room in the ledger.                              *)
(***************************************************************************)
EXTENDS RequestLedger, FiniteSets

CONSTANTS Ids,           \* the taps whose writes are followed
          Others,        \* BOUND: ids of the device's other writes
          RetryWithin,   \* RETRY_WITHIN_MS, in ticks
          Delay,         \* BOUND: ticks a request may be on its way past RetryWithin
          Unlocks,       \* BOUND: how often the phone unlocks, each time a new device
          MaxRestarts    \* BOUND: how often the server restarts

\* The ledger's memory outlasts every request that is still on its way.
ASSUME ClockAssumption == /\ RetryWithin \in Nat /\ Delay \in Nat \ {0}
                          /\ RetryWithin + Delay < Ttl
ASSUME BoundAssumption == Unlocks \in Nat \ {0} /\ MaxRestarts \in Nat
\* No more of a device's writes end within Ttl than the ledger remembers: an id
\* of Others is another write's once it is forgotten (OtherWrite).
ASSUME IdsAssumption == /\ RequestIds = Ids \cup Others /\ Ids \cap Others = {}
                        /\ IsFiniteSet(RequestIds) /\ Cardinality(RequestIds) <= Known

VARIABLES page,       \* [Ids -> Pages]: where the page is with each tap (S.pending)
          dropped,    \* pending taps that dropRetries keeps from going out again
          orphans,    \* S.orphans: taps over for apiWrite whose result may yet show
          age,        \* [Ids -> Nat]: ticks since the tap
          locked,     \* S.locked: the page shows the unlock screen
          dev,        \* the device its cookie names
          sock,       \* the page's socket is open
          shown,      \* the last action frame sent on it
          call,       \* [Calls -> ...]: where each request is
          live,       \* devices that are signed in
          book,       \* [1..Unlocks -> Books]: the ledger
          ran,        \* [Ids -> ...]: whether its handler was started, and in
                      \* which life of the server (history)
          restarts

pageVars == <<page, dropped, orphans, age, locked, dev, sock, shown>>
vars == <<pageVars, call, live, book, ran, restarts>>

Calls == Ids \X {1, 2}
Answers == Endings \cup {"in_progress", "already_answered"}

\* first: the first call is out; lost: it failed, and the page waits for a
\* reconnect (pending.resolve is set); again: the retry is out.
Pages == {"fresh", "first", "lost", "again", "over"}
Places == {"none", "sent", "queued", "handling", "ended"}
NoCall == [at |-> "none", dev |-> 1, ans |-> "none"]

TypeOK == /\ page \in [Ids -> Pages]
          /\ dropped \subseteq {i \in Ids : page[i] \in {"first", "lost", "again"}}
          /\ orphans \subseteq {i \in Ids : page[i] = "over"}
          /\ age \in [Ids -> 0..RetryWithin + Delay]
          /\ locked \in BOOLEAN /\ dev \in 1..Unlocks
          /\ sock \in BOOLEAN /\ shown \subseteq [id : RequestIds, ans : Endings]
          /\ call \in [Calls -> [at : Places, dev : 1..Unlocks, ans : Answers \cup {"none"}]]
          /\ live \subseteq 1..Unlocks
          /\ book \in [1..Unlocks -> Books]
          /\ ran \in [Ids -> {"no", "ran", "before"}]
          /\ restarts \in 0..MaxRestarts

Init == /\ page = [i \in Ids |-> "fresh"]
        /\ dropped = {} /\ orphans = {}
        /\ age = [i \in Ids |-> 0]
        /\ locked = FALSE /\ dev = 1 /\ sock = TRUE /\ shown = {}
        /\ call = [c \in Calls |-> NoCall]
        /\ live = {1}
        /\ book = [d \in 1..Unlocks |-> NoBook]
        /\ ran = [i \in Ids |-> "no"]
        /\ restarts = 0

-----------------------------------------------------------------------------
(* The page. *)

Sent == [NoCall EXCEPT !.at = "sent", !.dev = dev]
Pending == {i \in Ids : page[i] \in {"first", "lost", "again"}}
Lost == {i \in Ids : page[i] = "lost"}
Listening(c) == page[c[1]] = IF c[2] = 1 THEN "first" ELSE "again"

\* apiWrite up to its fetch.
Tap(i) ==
  /\ page[i] = "fresh" /\ ~locked
  /\ page' = [page EXCEPT ![i] = "first"]
  /\ call' = [call EXCEPT ![<<i, 1>>] = Sent]
  /\ UNCHANGED <<dropped, orphans, age, locked, dev, sock, shown, live, book, ran, restarts>>

\* Mutant: the end of apiWrite leaves the tap in S.pending.
OverButPending(S, hoping) == page' = page /\ orphans' = orphans \cup hoping

\* apiWrite ends for the taps of S; those of hoping wait for the ledger's word.
Over(S, hoping) ==
  /\ page' = [i \in Ids |-> IF i \in S THEN "over" ELSE page[i]]
  /\ orphans' = orphans \cup hoping

\* toUnlock and its dropRetries, as the response of heard comes in, if any.
GoLocked(heard) ==
  /\ locked' = TRUE /\ sock' = FALSE /\ shown' = {}
  /\ Over(Lost \cup heard, Lost)
  /\ dropped' = Pending \ (Lost \cup heard)

\* A response reaches the page that waits for it; a 401 goes through toUnlock.
Answered(c) ==
  /\ call[c].at = "ended" /\ Listening(c)
  /\ call' = [call EXCEPT ![c] = NoCall]
  /\ \/ call[c].ans = "unauthorized" /\ GoLocked({c[1]})
     \/ /\ call[c].ans # "unauthorized"
        /\ Over({c[1]}, IF call[c].ans = "in_progress" THEN {c[1]} ELSE {})
        /\ dropped' = dropped \ {c[1]}
        /\ UNCHANGED <<locked, sock, shown>>
  /\ UNCHANGED <<age, dev, live, book, ran, restarts>>

\* Mutant: a lost request leaves the socket it may have died with in place.
FirstFailsQuietly(i) ==
  /\ page[i] = "first"
  /\ page' = [page EXCEPT ![i] = "lost"]
  /\ UNCHANGED <<dropped, orphans, age, locked, dev, sock, shown, call, live, book, ran, restarts>>

\* The first fetch fails, whatever became of the request: wake(true)
\* replaces the socket.
FirstFails(i) ==
  /\ page[i] = "first"
  /\ page' = [page EXCEPT ![i] = "lost"]
  /\ sock' = FALSE /\ shown' = {}
  /\ UNCHANGED <<dropped, orphans, age, locked, dev, call, live, book, ran, restarts>>

\* The retry's fetch fails too ("unconfirmed"), or no reconnect came in time
\* ("late"): the page can only hope.
GiveUp(i) ==
  /\ page[i] = "again" \/ (page[i] = "lost" /\ age[i] >= RetryWithin)
  /\ Over({i}, {i}) /\ dropped' = dropped \ {i}
  /\ UNCHANGED <<age, locked, dev, sock, shown, call, live, book, ran, restarts>>

\* Mutant: what was tapped before an unlock is sent again after it.
TooOld(i) == age[i] > RetryWithin
\* flushRetries: whether a lost request is not sent again.
NotAgain(i) == i \in dropped \/ age[i] > RetryWithin

\* The socket opens: flushRetries.
Connect ==
  LET again == {i \in Lost : ~NotAgain(i)}
  IN /\ ~sock /\ ~locked /\ dev \in live
     /\ sock' = TRUE /\ shown' = {}
     /\ page' = [i \in Ids |-> CASE i \in again -> "again"
                                 [] i \in Lost \ again -> "over"
                                 [] OTHER -> page[i]]
     /\ orphans' = orphans \cup (Lost \ again)
     /\ dropped' = dropped \ Lost
     /\ call' = [c \in Calls |-> IF c[2] = 2 /\ c[1] \in again THEN Sent ELSE call[c]]
     /\ UNCHANGED <<age, locked, dev, live, book, ran, restarts>>

SocketDrops ==
  /\ sock
  /\ sock' = FALSE /\ shown' = {}
  /\ UNCHANGED <<page, dropped, orphans, age, locked, dev, call, live, book, ran, restarts>>

\* settleFromLedger: each ending goes to the tap that waits for it. One whose
\* first call is still out is passed over.
SettleFromLedger(recent) ==
  LET said == {e.id : e \in recent} \cap Ids
      settled == {i \in said : page[i] \in {"lost", "again"}}
  IN /\ page' = [i \in Ids |-> IF i \in settled THEN "over" ELSE page[i]]
     /\ orphans' = orphans \ (said \ settled)
     /\ dropped' = dropped \ settled

\* A tick of the socket: its first, or one that finds the device's recent
\* endings changed, sends them (push_if_changed).
ActionFrame ==
  LET kept == Forgotten(book[dev])
      recent == LedgerRecent(kept)
  IN /\ sock /\ dev \in live
     /\ recent # {} /\ recent # shown
     /\ shown' = recent
     /\ book' = [book EXCEPT ![dev] = kept]
     /\ SettleFromLedger(recent)
     /\ UNCHANGED <<age, locked, dev, sock, call, live, ran, restarts>>

\* refreshActions: a page that wakes asks for the same.
RefreshActions ==
  LET kept == Forgotten(book[dev])
  IN /\ ~locked /\ dev \in live
     /\ book' = [book EXCEPT ![dev] = kept]
     /\ SettleFromLedger(LedgerRecent(kept))
     /\ UNCHANGED <<age, locked, dev, sock, shown, call, live, ran, restarts>>

\* The page meets a 401, or its socket is closed as unauthorized.
ToUnlock ==
  /\ dev \notin live /\ ~locked
  /\ GoLocked({})
  /\ UNCHANGED <<age, dev, call, live, book, ran, restarts>>

\* An unlock makes a new device (unlock_device), whose book is empty.
Unlock ==
  /\ locked /\ dev < Unlocks
  /\ locked' = FALSE /\ dev' = dev + 1 /\ live' = live \cup {dev + 1}
  /\ UNCHANGED <<page, dropped, orphans, age, sock, shown, call, book, ran, restarts>>

\* The tab is loaded again: what was pending is an orphan (savePending, loadPending).
Reload ==
  /\ Pending # {}
  /\ Over(Pending, Pending) /\ dropped' = {}
  /\ sock' = FALSE /\ shown' = {}
  /\ UNCHANGED <<age, locked, dev, call, live, book, ran, restarts>>

-----------------------------------------------------------------------------
(* The connection and the server. *)

Moved(c, place) == call' = [call EXCEPT ![c].at = place]
\* The response is on its way, if the page still waits for it.
Says(c, ans) == call' = [call EXCEPT ![c] = IF Listening(c)
                                            THEN [@ EXCEPT !.at = "ended", !.ans = ans]
                                            ELSE NoCall]

\* A request that never arrives, or a response the page no longer waits for.
Vanish(c) ==
  /\ call[c].at = "sent" \/ (call[c].at = "ended" /\ ~Listening(c))
  /\ call' = [call EXCEPT ![c] = NoCall]
  /\ UNCHANGED <<pageVars, live, book, ran, restarts>>

\* Mutant: the write switch is asked before the ledger.
AnswerGateFirst(c, seen, allowed) ==
  \/ ~allowed /\ Says(c, "read_only")
  \/ allowed /\ seen # "new" /\ Says(c, seen)

\* What kit_gated answers itself: from the ledger, else 403.
Answer(c, seen, allowed) ==
  \/ seen # "new" /\ Says(c, seen)
  \/ seen = "new" /\ ~allowed /\ Says(c, "read_only")

\* A request arrives: the device gate, then kit_gated, then from ledger_seen
\* over ledger_begin to the pool in one go, for there is no await on the way.
Arrive(c) ==
  LET d == call[c].dev
      kept == Forgotten(book[d])
      seen == LedgerSeen(kept, c[1])
      begun == LedgerBegun(kept, c[1])
  IN /\ call[c].at = "sent"
     /\ \/ d \notin live /\ Says(c, "unauthorized") /\ UNCHANGED book
        \/ /\ d \in live /\ book' = [book EXCEPT ![d] = kept]
           /\ \E allowed \in BOOLEAN : Answer(c, seen, allowed)
        \/ /\ d \in live /\ seen = "new"
           /\ \/ Moved(c, "queued") /\ book' = [book EXCEPT ![d] = begun]
              \/ /\ Says(c, "busy")
                 /\ book' = [book EXCEPT ![d] = LedgerFinished(begun, c[1], "busy")]
     /\ UNCHANGED <<pageVars, live, ran, restarts>>

\* kit_ledgered's finally.
Finish(c, ans) ==
  /\ Says(c, ans)
  /\ book' = [book EXCEPT ![call[c].dev] = LedgerFinished(Forgotten(@), c[1], ans)]

\* A thread of the pool takes the write up, asks again (kit_write_still_allowed)
\* and refuses it ...
Refuse(c) ==
  /\ call[c].at = "queued"
  /\ Finish(c, IF call[c].dev \in live THEN "read_only" ELSE "unauthorized")
  /\ UNCHANGED <<pageVars, live, ran, restarts>>

\* ... or runs its handler.
Start(c) ==
  /\ call[c].at = "queued" /\ call[c].dev \in live
  /\ Moved(c, "handling")
  /\ ran' = [ran EXCEPT ![c[1]] = "ran"]
  /\ UNCHANGED <<pageVars, live, book, restarts>>

End(c) ==
  /\ call[c].at = "handling"
  /\ \E ans \in {"done", "failed"} : Finish(c, ans)
  /\ UNCHANGED <<pageVars, live, ran, restarts>>

\* Another write of the device, begun and ended.
OtherWrite(o) ==
  LET kept == Forgotten(book[dev])
  IN /\ dev \in live /\ LedgerSeen(kept, o) = "new"
     /\ book' = [book EXCEPT ![dev] = LedgerFinished(LedgerBegun(kept, o), o, "done")]
     /\ UNCHANGED <<pageVars, call, live, ran, restarts>>

\* The owner revokes the device, its sign-in runs out, or Remote goes off.
Revoke ==
  /\ dev \in live
  /\ live' = live \ {dev}
  /\ UNCHANGED <<pageVars, call, book, ran, restarts>>

\* The server restarts: remote.json stays, the ledger and the calls it had do not.
Restart ==
  /\ restarts < MaxRestarts
  /\ restarts' = restarts + 1
  /\ book' = [d \in 1..Unlocks |-> NoBook]
  /\ call' = [c \in Calls |-> IF call[c].at = "sent" THEN call[c] ELSE NoCall]
  /\ ran' = [i \in Ids |-> IF ran[i] = "no" THEN "no" ELSE "before"]
  /\ sock' = FALSE /\ shown' = {}
  /\ UNCHANGED <<page, dropped, orphans, age, locked, dev, live>>

\* BOUND: a request arrives within Delay of the last moment the page would
\* send it, or not at all.
Tick ==
  /\ \A c \in Calls : call[c].at = "sent" => age[c[1]] < RetryWithin + Delay
  /\ age' = [i \in Ids |-> IF page[i] # "fresh" /\ age[i] < RetryWithin + Delay
                           THEN age[i] + 1 ELSE age[i]]
  /\ book' = [d \in 1..Unlocks |-> Older(book[d])]
  /\ <<age', book'>> # <<age, book>>
  /\ UNCHANGED <<page, dropped, orphans, locked, dev, sock, shown, call, live, ran, restarts>>

PageStep == \/ \E i \in Ids : Tap(i) \/ FirstFails(i) \/ GiveUp(i)
            \/ \E c \in Calls : Answered(c)
            \/ Connect \/ SocketDrops \/ ActionFrame \/ RefreshActions \/ ToUnlock \/ Unlock \/ Reload
ServerStep == \/ \E c \in Calls : Vanish(c) \/ Arrive(c) \/ Refuse(c) \/ Start(c) \/ End(c)
              \/ \E o \in Others : OtherWrite(o)
              \/ Revoke \/ Restart
Next == PageStep \/ ServerStep \/ Tick

Spec == Init /\ [][Next]_vars

\* A page with no socket opens one (scheduleReconnect), and whatever cuts it
\* does not do so for ever before the first tick of the server's loop.
FairSpec == Spec /\ WF_vars(Connect) /\ SF_vars(ActionFrame)

-----------------------------------------------------------------------------
(* Properties. *)

\* "The ledger answers a retried id as it did, so a restart never runs
\* twice" (app.js:802): while the server lives, one tap starts its handler
\* once, however its two calls are lost, delayed and overtaken, and whether
\* or not the phone unlocks in between as another device.
Starts(i) == \E k \in {1, 2} : call[<<i, k>>].at = "queued" /\ call'[<<i, k>>].at = "handling"
RunsOnce == [][\A i \in Ids : Starts(i) => ran[i] # "ran"]_vars

\* The page hears that a write was done only when it was, and that it was
\* refused as busy or read-only only when, as that was said, neither of its
\* calls had run or was about to: a retry is not told 403 because writes went
\* off after the first try ran.
AnswersAreTrue ==
  [][\A i \in Ids, k \in {1, 2} :
       call[<<i, k>>].at # "ended" /\ call'[<<i, k>>].at = "ended" =>
         /\ call'[<<i, k>>].ans = "done" => ran[i] = "ran"
         /\ call'[<<i, k>>].ans \in {"busy", "read_only"} =>
              ran[i] # "ran" /\ call[<<i, 3 - k>>].at \notin {"queued", "handling"}]_vars

\* A write the page hopes to hear of does not stay untold while its ending is
\* among those its socket is there to show.
Shown(i) == dev \in live /\ ~locked /\ \E e \in LedgerRecent(Forgotten(book[dev])) : e.id = i
OrphansHear == \A i \in Ids : []<>~(i \in orphans /\ Shown(i))
=============================================================================
