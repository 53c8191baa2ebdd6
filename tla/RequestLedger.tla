--------------------------- MODULE RequestLedger ---------------------------
(***************************************************************************)
(* One device's book in the request ledger (services/remote_actions.py,    *)
(* ActionLedger): which of its writes are running and how its last ones    *)
(* ended.  Each book is three dicts in insertion order, here sequences,    *)
(* oldest first.  An age counts ticks since the write began (run) or ended *)
(* (fin, spent).  The digest of endpoint and body that the code keeps with *)
(* an id is left out: the page draws a fresh id for every write.           *)
(***************************************************************************)
EXTENDS Sequences, Naturals

CONSTANTS RequestIds,
          Kept,      \* ACTION_LEDGER_SIZE: answers kept for a replay
          Known,     \* ACTION_LEDGER_IDS: ids remembered, with or without an answer
          Ttl        \* ACTION_LEDGER_TTL, in ticks

ASSUME LedgerAssumption == /\ Kept \in Nat \ {0} /\ Known \in Nat /\ Kept <= Known
                           /\ Ttl \in Nat \ {0}

\* How a write ends: it ran, well or badly, or it was refused on the way
\* (read_only stands for the 404 past auto-off too).
Endings == {"done", "failed", "busy", "read_only", "unauthorized"}

Books == [run : Seq([id : RequestIds, age : 0..Ttl]),
          fin : Seq([id : RequestIds, ans : Endings, age : 0..Ttl]),
          spent : Seq([id : RequestIds, ans : Endings, age : 0..Ttl])]
NoBook == [run |-> <<>>, fin |-> <<>>, spent |-> <<>>]

\* The walk of _ledger_drop_expired: it stops at the first record young enough.
Young(s) ==
  LET young == {n \in DOMAIN s : s[n].age < Ttl}
  IN IF young = {} THEN <<>>
     ELSE SubSeq(s, CHOOSE n \in young : \A m \in young : n <= m, Len(s))
Forgotten(book) == [run |-> Young(book.run), fin |-> Young(book.fin), spent |-> Young(book.spent)]

Aged(s) == [n \in DOMAIN s |-> [s[n] EXCEPT !.age = IF @ < Ttl THEN @ + 1 ELSE @]]
Older(book) == [run |-> Aged(book.run), fin |-> Aged(book.fin), spent |-> Aged(book.spent)]

Has(s, id) == \E n \in DOMAIN s : s[n].id = id
Place(s, id) == CHOOSE n \in DOMAIN s : s[n].id = id
Of(s, id) == s[Place(s, id)]
\* pop(id, None): a dict holds an id once.
Without(s, id) == IF Has(s, id)
                  THEN SubSeq(s, 1, Place(s, id) - 1) \o SubSeq(s, Place(s, id) + 1, Len(s))
                  ELSE s

\* ledger_seen: the answer a retry gets, or "new".
LedgerSeen(book, id) == IF Has(book.fin, id) THEN Of(book.fin, id).ans
                        ELSE IF Has(book.run, id) THEN "in_progress"
                        ELSE IF Has(book.spent, id) THEN "already_answered"
                        ELSE "new"

\* ledger_begin, for an id that is not running.
LedgerBegun(book, id) == [book EXCEPT !.run = Append(@, [id |-> id, age |-> 0])]

\* Mutant: an answer that makes room takes its id with it.
FinishedForgets(book, id, ans) ==
  LET fin == Append(Without(book.fin, id), [id |-> id, ans |-> ans, age |-> 0])
  IN [run |-> Without(book.run, id), spent |-> <<>>,
      fin |-> IF Len(fin) > Kept THEN Tail(fin) ELSE fin]

\* ledger_finish: the newest ending goes last, the oldest answer makes room
\* for it and leaves its id, and past Known ids the oldest is forgotten.
LedgerFinished(book, id, ans) ==
  LET fin == Append(Without(book.fin, id), [id |-> id, ans |-> ans, age |-> 0])
      full == Len(fin) > Kept
      spent == IF full THEN Append(Without(book.spent, id), Head(fin))
                       ELSE Without(book.spent, id)
  IN [run   |-> Without(book.run, id),
      fin   |-> IF full THEN Tail(fin) ELSE fin,
      spent |-> IF Len(spent) > Known - Kept THEN Tail(spent) ELSE spent]

\* ledger_recent: what the page is shown, as a set (it looks entries up by id).
LedgerRecent(book) == {[id |-> book.fin[n].id, ans |-> book.fin[n].ans] : n \in DOMAIN book.fin}
=============================================================================
