--------------------------- MODULE AccountsProofs ---------------------------
(***************************************************************************)
(* Proofs about Accounts, for any number of clients, accounts, sessions    *)
(* and uses of the script that empties the tables.                         *)
(***************************************************************************)
EXTENDS Accounts, FiniteSetTheorems, TLAPS

(* Session s was created by a client of the account of c.                  *)
Scoped(c, s) == s \in 1..clock /\ creator[s] \in Clients /\ Email[creator[s]] = Email[c]

(* Every row belongs to the account of the client that created it.         *)
RowInv ==
    \A x \in sessions :
        /\ x.id \in 1..clock
        /\ creator[x.id] \in Clients
        /\ users[x.user].email = Email[creator[x.id]]

(* A request p of client c under way has its token, and holds nothing of   *)
(* others.                                                                 *)
CallScoped(c, p) ==
    /\ p.op \in {"create", "list", "events"} => token[c] # 0
    /\ p.op \in {"create", "events"} => Scoped(c, p.session)
    /\ \A s \in p.seen \cup p.rows : Scoped(c, s)

CallInv == \A c \in Clients : CallScoped(c, call[c])

Told == answer.items \cup (IF answer.status \in {200, 500} THEN {answer.session} ELSE {})
AnswerInv == \A s \in Told : s # 0 => answer.client \in Clients /\ Scoped(answer.client, s)

(* The place of s in a list in descending order.                           *)
Rank(S, s) == Cardinality({q \in S : q > s})

(* A reading p of all pages of the rows O: what it was to see and has not  *)
(* yet seen is still to come, in the pages after the one read last.        *)
Reading(O, p) ==
    /\ p.expected \subseteq O
    /\ p.step = 1 => \A s \in p.expected \ p.seen : Rank(O, s) >= p.offset
    /\ p.step = 2 => \A s \in p.expected \ (p.seen \cup p.rows) : Rank(O, s) >= p.offset + Limit

ReadInv ==
    resets = 0 => \A c \in Clients : call[c].op = "list" => Reading(Owned(token[c]), call[c])

IInv ==
    /\ TypeOK
    /\ OneAccount
    /\ RowInv
    /\ CallInv
    /\ AnswerInv
    /\ ReadInv
    /\ PagesCover

-----------------------------------------------------------------------------
(* Ranks.                                                                  *)

LEMMA Finite == ASSUME NEW S, S \subseteq Ids PROVE IsFiniteSet(S)
  <1>1. IsFiniteSet(Ids)
    BY AccountsAssumption, FS_Interval DEF Ids
  <1> QED
    BY <1>1, FS_Subset

LEMMA RankNat == ASSUME NEW S, S \subseteq Ids, NEW s PROVE Rank(S, s) \in Nat
  <1>1. {q \in S : q > s} \subseteq Ids
    OBVIOUS
  <1> QED
    BY <1>1, Finite, FS_CardinalityType DEF Rank

(* Rows that are added move a row to later pages, never to earlier ones.   *)
LEMMA RankGrows ==
    ASSUME NEW S, NEW T, S \subseteq T, T \subseteq Ids, NEW s
    PROVE  Rank(S, s) <= Rank(T, s)
  <1>1. {q \in T : q > s} \subseteq Ids /\ {q \in S : q > s} \in SUBSET {q \in T : q > s}
    OBVIOUS
  <1> QED
    BY <1>1, Finite, FS_Subset DEF Rank

(* The last of n rows has rank n - 1.                                      *)
LEMMA RankBelow ==
    ASSUME NEW S, S \subseteq Ids, NEW s \in S
    PROVE  Rank(S, s) < Cardinality(S)
  <1> DEFINE T == {q \in S : q > s}
  <1>1. s \in Int
    BY DEF Ids
  <1>2. T \in SUBSET S /\ s \notin T
    BY <1>1
  <1>3. IsFiniteSet(S) /\ Cardinality(S) \in Nat /\ IsFiniteSet(T) /\ Cardinality(T) \in Nat
    BY <1>2, Finite, FS_CardinalityType, FS_Subset
  <1>4. Cardinality(T) <= Cardinality(S) /\ (Cardinality(S) = Cardinality(T) => S = T)
    BY <1>2, <1>3, FS_Subset
  <1> QED
    BY <1>2, <1>3, <1>4 DEF Rank

(* A page takes the rows from its offset on; what it leaves is before or   *)
(* after it.                                                               *)
LEMMA PageTakes ==
    ASSUME NEW S, S \subseteq Ids, NEW n \in Nat, NEW s \in S, Rank(S, s) >= n,
           s \notin Page(S, n)
    PROVE  Rank(S, s) >= n + Limit
  <1>1. Rank(S, s) \in Nat /\ Limit \in Nat
    BY RankNat, AccountsAssumption
  <1>2. ~(Rank(S, s) \in n..(n + Limit - 1))
    BY DEF Page, Rank
  <1> QED
    BY <1>1, <1>2

-----------------------------------------------------------------------------
(* Every action preserves the invariant.                                   *)

LEMMA IdleRecord ==
    /\ Idle \in CallRecords
    /\ NoAnswer \in AnswerRecords
    /\ Idle.op = "none" /\ Idle.seen = {} /\ Idle.rows = {}
  BY AccountsAssumption DEF Idle, NoAnswer, Answer, CallRecords, AnswerRecords, Ids

LEMMA InitIInv == Init => IInv
  <1> SUFFICES ASSUME Init PROVE IInv
    OBVIOUS
  <1>1. TypeOK
    BY IdleRecord, AccountsAssumption DEF Init, TypeOK
  <1>2. OneAccount /\ RowInv
    BY DEF Init, OneAccount, RowInv
  <1>3. CallInv
    BY DEF Init, CallInv, CallScoped, Idle
  <1>4. AnswerInv /\ PagesCover
    BY DEF Init, AnswerInv, PagesCover, Told, NoAnswer, Answer
  <1>5. ReadInv
    BY DEF Init, ReadInv, Idle
  <1> QED
    BY <1>1, <1>2, <1>3, <1>4, <1>5 DEF IInv

(* What the invariant says of the account and the rows of a client.        *)
LEMMA OwnedScoped ==
    ASSUME TypeOK, OneAccount, RowInv, NEW c \in Clients, token[c] # 0, NEW s \in Owned(token[c])
    PROVE  Scoped(c, s)
  <1>1. PICK x \in sessions : x.user = token[c] /\ x.id = s
    BY DEF Owned
  <1>2. users[token[c]] = [email |-> Email[c], password |-> Password[c]]
    BY DEF OneAccount
  <1>3. users[token[c]].email = Email[c]
    BY <1>2
  <1> QED
    BY <1>1, <1>3 DEF RowInv, Scoped

LEMMA OwnedIds == ASSUME TypeOK, NEW u PROVE Owned(u) \subseteq Ids
  BY DEF TypeOK, Owned

(* A client's request goes on, the tables and tokens staying as they are.  *)
LEMMA RequestStep ==
    ASSUME IInv, UNCHANGED <<tables, token>>, NEW c \in Clients, NEW p \in CallRecords,
           call' = [call EXCEPT ![c] = p], CallScoped(c, p),
           resets = 0 /\ p.op = "list" => Reading(Owned(token[c]), p),
           answer' \in AnswerRecords, AnswerInv', PagesCover'
    PROVE  IInv'
  <1>1. /\ users' = users /\ sessions' = sessions /\ clock' = clock /\ creator' = creator
        /\ resets' = resets /\ token' = token
    BY DEF tables
  <1>2. call \in [Clients -> CallRecords]
    BY DEF IInv, TypeOK
  <1>3. call' \in [Clients -> CallRecords] /\ call'[c] = p
        /\ \A d \in Clients \ {c} : call'[d] = call[d]
    BY <1>2
  <1>4. TypeOK'
    BY <1>1, <1>3 DEF IInv, TypeOK
  <1>5. OneAccount' /\ RowInv'
    BY <1>1 DEF IInv, OneAccount, RowInv
  <1>6. CallInv'
    <2> SUFFICES ASSUME NEW d \in Clients PROVE CallScoped(d, call'[d])
      BY <1>1 DEF CallInv, CallScoped, Scoped
    <2> QED
      BY <1>3 DEF IInv, CallInv
  <1>7. ReadInv'
    <2> SUFFICES ASSUME NEW d \in Clients, resets = 0, call'[d].op = "list"
                 PROVE  Reading(Owned(token[d]), call'[d])
      BY <1>1 DEF ReadInv, Owned
    <2> QED
      BY <1>3 DEF IInv, ReadInv
  <1> QED
    BY <1>4, <1>5, <1>6, <1>7 DEF IInv

(* It goes on without an answer.                                           *)
LEMMA SilentStep ==
    ASSUME IInv, UNCHANGED <<tables, token, answer>>, NEW c \in Clients, NEW p \in CallRecords,
           call' = [call EXCEPT ![c] = p], CallScoped(c, p),
           resets = 0 /\ p.op = "list" => Reading(Owned(token[c]), p)
    PROVE  IInv'
  <1>1. answer' = answer /\ clock' = clock /\ creator' = creator /\ resets' = resets
    BY DEF tables
  <1>2. AnswerInv' /\ PagesCover' /\ answer' \in AnswerRecords
    BY <1>1 DEF IInv, TypeOK, AnswerInv, PagesCover, Told, Scoped
  <1> QED
    BY <1>2, RequestStep DEF tables

LEMMA RegisterKeeps == ASSUME IInv, NEW c \in Clients, register(c) PROVE IInv'
  <1> DEFINE op == IF Registered(Email[c]) THEN _register_or_login ELSE "insert"
             p == [Idle EXCEPT !.op = op, !.session = 0]
  <1>1. op \in {"login", "insert"}
    BY DEF _register_or_login
  <1>2. p \in CallRecords /\ p.op = op /\ p.seen = {} /\ p.rows = {}
    BY <1>1, IdleRecord DEF Idle, CallRecords
  <1>3. CallScoped(c, p)
    BY <1>1, <1>2 DEF CallScoped
  <1>4. call' = [call EXCEPT ![c] = p] /\ UNCHANGED <<tables, token, answer>>
    BY DEF register, Begin
  <1> HIDE DEF p, op
  <1> QED
    BY <1>1, <1>2, <1>3, <1>4, SilentStep

LEMMA ListKeeps == ASSUME IInv, NEW c \in Clients, list_sessions(c) PROVE IInv'
  <1> DEFINE O == Owned(token[c])
             p == [Idle EXCEPT !.op = "list", !.expected = O]
  <1>1. O \subseteq Ids
    BY OwnedIds DEF IInv
  <1>2. p \in CallRecords /\ p.op = "list" /\ p.seen = {} /\ p.rows = {} /\ p.expected = O
        /\ p.step = 1 /\ p.offset = 0
    <2> HIDE DEF O
    <2> QED
      BY <1>1, IdleRecord DEF Idle, CallRecords
  <1>3. CallScoped(c, p)
    BY <1>2 DEF CallScoped, list_sessions, Authorised
  <1>4. Reading(O, p)
    <2>1. \A s : Rank(O, s) >= 0
      BY <1>1, RankNat
    <2> QED
      BY <1>2, <2>1 DEF Reading
  <1>5. call' = [call EXCEPT ![c] = p] /\ UNCHANGED <<tables, token, answer>>
    BY DEF list_sessions
  <1> HIDE DEF p
  <1> QED
    BY <1>2, <1>3, <1>4, <1>5, SilentStep

LEMMA RowsRead ==
    ASSUME NEW q \in CallRecords, NEW P \in SUBSET Ids
    PROVE  [q EXCEPT !.rows = P, !.step = 2] \in CallRecords
  <1> DEFINE Steps == 1..2
             Numbers == 0..MaxSessions
  <1>1. 2 \in Steps
    OBVIOUS
  <1>2. CallRecords =
          [op : {"none", "insert", "login", "create", "list", "events"}, session : Numbers,
           step : Steps, offset : Nat, total : Nat,
           rows : SUBSET Ids, seen : SUBSET Ids, expected : SUBSET Ids]
    BY DEF CallRecords
  <1> HIDE DEF Steps, Numbers
  <1> QED
    BY <1>1, <1>2

(* The first statement of a page selects its rows, the second counts.      *)
LEMMA ListFirstKeeps == ASSUME IInv, NEW c \in Clients, ListFirst(c) PROVE IInv'
  <1> DEFINE O == Owned(token[c])
             q == call[c]
             p == [Read(c) EXCEPT !.step = 2]
  <1>1. O \subseteq Ids /\ q \in CallRecords
    <2>1. O \subseteq Ids
      BY OwnedIds DEF IInv
    <2>2. q \in CallRecords
      BY DEF IInv, TypeOK
    <2> QED
      BY <2>1, <2>2
  <1>2. q.op = "list" /\ q.step = 1 /\ CallScoped(c, q)
        /\ (resets = 0 => Reading(O, q))
    BY DEF ListFirst, IInv, CallInv, ReadInv
  <1>3. Read(c) = [q EXCEPT !.rows = Page(O, q.offset)]
    BY <1>2 DEF Read, Statements
  <1>4. Page(O, q.offset) \subseteq O
    BY DEF Page
  <1>5. p \in CallRecords /\ p.op = "list" /\ p.seen = q.seen /\ p.rows = Page(O, q.offset)
        /\ p.expected = q.expected /\ p.step = 2 /\ p.offset = q.offset
    <2> DEFINE P == Page(O, q.offset)
    <2>1. P \in SUBSET Ids /\ p = [q EXCEPT !.rows = P, !.step = 2]
      BY <1>1, <1>3, <1>4
    <2> HIDE DEF O, q, P
    <2>2. [q EXCEPT !.rows = P, !.step = 2] \in CallRecords
      BY <1>1, <2>1, RowsRead
    <2>3. LET x == [q EXCEPT !.rows = P, !.step = 2]
          IN  x.op = "list" /\ x.seen = q.seen /\ x.rows = P /\ x.expected = q.expected
              /\ x.step = 2 /\ x.offset = q.offset
      BY <1>1, <1>2 DEF CallRecords
    <2> QED
      BY <2>1, <2>2, <2>3 DEF P
  <1>6. CallScoped(c, p)
    <2>1. token[c] # 0 /\ \A s \in q.seen : Scoped(c, s)
      BY <1>2 DEF CallScoped
    <2>2. \A s \in O : Scoped(c, s)
      BY <2>1, OwnedScoped DEF IInv
    <2> HIDE DEF p, O, q
    <2> QED
      BY <1>4, <1>5, <2>1, <2>2 DEF CallScoped
  <1>7. resets = 0 => Reading(O, p)
    <2> SUFFICES ASSUME resets = 0, NEW s \in q.expected \ (q.seen \cup Page(O, q.offset))
                 PROVE  Rank(O, s) >= q.offset + Limit
      BY <1>2, <1>5 DEF Reading
    <2>1. s \in O /\ Rank(O, s) >= q.offset /\ q.offset \in Nat
      BY <1>1, <1>2 DEF Reading, CallRecords
    <2> QED
      BY <1>1, <2>1, PageTakes
  <1>8. call' = [call EXCEPT ![c] = p] /\ UNCHANGED <<tables, token, answer>>
    BY DEF ListFirst
  <1> HIDE DEF p
  <1> QED
    BY <1>5, <1>6, <1>7, <1>8, SilentStep

LEMMA AnswerMade ==
    ASSUME NEW c \in Clients \cup {NoClient}, NEW status \in {0, 200, 404, 500},
           NEW s \in 0..MaxSessions, NEW I \in SUBSET Ids, NEW E \in SUBSET Ids
    PROVE  LET a == Answer(c, status, s, I, E)
           IN  /\ a \in AnswerRecords /\ a.client = c /\ a.status = status
               /\ a.session = s /\ a.items = I /\ a.expected = E
  <1> DEFINE Who == Clients \cup {NoClient}
             Numbers == 0..MaxSessions
             Codes == {0, 200, 404, 500}
             Sets == SUBSET Ids
  <1>1. c \in Who /\ status \in Codes /\ s \in Numbers /\ I \in Sets /\ E \in Sets
    OBVIOUS
  <1>2. AnswerRecords =
          [client : Who, status : Codes, session : Numbers, items : Sets, expected : Sets]
    BY DEF AnswerRecords
  <1> HIDE DEF Who, Numbers, Codes, Sets
  <1> QED
    BY <1>1, <1>2 DEF Answer

LEMMA ListSecondKeeps == ASSUME IInv, NEW c \in Clients, ListSecond(c) PROVE IInv'
  <1> DEFINE O == Owned(token[c])
             q == call[c]
             seen == q.seen \cup q.rows
             n == q.offset + Limit
             r == [Idle EXCEPT !.op = "list", !.offset = n, !.seen = seen, !.expected = q.expected]
             a == Answer(c, 200, 0, seen, q.expected)
  <1>1. O \subseteq Ids /\ q \in CallRecords /\ Limit \in Nat
    <2>1. O \subseteq Ids
      BY OwnedIds DEF IInv
    <2>2. q \in CallRecords
      BY DEF IInv, TypeOK
    <2>3. Limit \in Nat
      BY AccountsAssumption
    <2> QED
      BY <2>1, <2>2, <2>3
  <1>2. q.op = "list" /\ q.step = 2 /\ CallScoped(c, q)
        /\ (resets = 0 => Reading(O, q))
    BY DEF ListSecond, IInv, CallInv, ReadInv
  <1>3. Read(c) = [q EXCEPT !.total = Cardinality(O)]
    BY <1>2 DEF Read, Statements
  <1>4. /\ Read(c).seen = q.seen /\ Read(c).rows = q.rows /\ Read(c).offset = q.offset
        /\ Read(c).expected = q.expected /\ Read(c).total = Cardinality(O)
    <2> HIDE DEF O, q
    <2> QED
      BY <1>1, <1>3 DEF CallRecords
  <1>5. seen \in SUBSET Ids /\ q.expected \in SUBSET Ids /\ n \in Nat
    BY <1>1 DEF CallRecords
  <1>6. token[c] # 0 /\ \A s \in seen : Scoped(c, s)
    BY <1>2 DEF CallScoped
  <1>7. UNCHANGED <<tables, token>>
    BY DEF ListSecond
  <1>8. CASE n < Cardinality(O)
    <2>1. call' = [call EXCEPT ![c] = r] /\ answer' = answer
      BY <1>4, <1>8 DEF ListSecond
    <2>2. r \in CallRecords /\ r.op = "list" /\ r.seen = seen /\ r.rows = {} /\ r.step = 1
          /\ r.offset = n /\ r.expected = q.expected
      <3> HIDE DEF seen, n, q
      <3> QED
        BY <1>5, IdleRecord DEF Idle, CallRecords
    <2> HIDE DEF r
    <2>3. CallScoped(c, r)
      BY <1>6, <2>2 DEF CallScoped
    <2>4. resets = 0 => Reading(O, r)
      BY <1>2, <2>2 DEF Reading
    <2> QED
      BY <1>7, <2>1, <2>2, <2>3, <2>4, SilentStep
  <1>9. CASE ~(n < Cardinality(O))
    <2>1. call' = [call EXCEPT ![c] = Idle] /\ answer' = a
      BY <1>4, <1>9 DEF ListSecond, End
    <2>2. a \in AnswerRecords /\ a.client = c /\ a.status = 200 /\ a.items = seen
          /\ a.expected = q.expected /\ a.session = 0
      <3>1. 0 \in 0..MaxSessions /\ 200 \in {0, 200, 404, 500} /\ c \in Clients \cup {NoClient}
        BY AccountsAssumption
      <3> HIDE DEF seen, q
      <3> QED
        BY <1>5, <3>1, AnswerMade
    <2> HIDE DEF a
    <2>3. AnswerInv'
      <3>1. Told' = seen \cup {0} /\ clock' = clock /\ creator' = creator
        BY <1>7, <2>1, <2>2 DEF Told, tables
      <3> QED
        BY <1>6, <2>1, <2>2, <3>1 DEF AnswerInv, Scoped
    <2>4. PagesCover'
      <3> SUFFICES ASSUME resets = 0, NEW s \in q.expected, s \notin seen
                   PROVE  FALSE
        BY <1>7, <2>1, <2>2 DEF PagesCover, tables
      <3>1. s \in O /\ Rank(O, s) >= n
        BY <1>2 DEF Reading
      <3>2. Rank(O, s) < Cardinality(O) /\ Rank(O, s) \in Nat /\ Cardinality(O) \in Nat
        BY <1>1, <3>1, RankBelow, RankNat, Finite, FS_CardinalityType
      <3> HIDE DEF n
      <3> QED
        BY <1>5, <1>9, <3>1, <3>2
    <2>5. CallScoped(c, Idle)
      BY IdleRecord DEF CallScoped
    <2> QED
      BY <1>7, <2>1, <2>2, <2>3, <2>4, <2>5, IdleRecord, RequestStep
  <1> QED
    BY <1>8, <1>9

(* The other answers show one session, which is the client's unless they   *)
(* say that there is none.                                                 *)
LEMMA RespondKeeps ==
    ASSUME IInv, NEW c \in Clients, UNCHANGED <<tables, token>>, NEW p \in CallRecords,
           call' = [call EXCEPT ![c] = p], CallScoped(c, p),
           resets = 0 /\ p.op = "list" => Reading(Owned(token[c]), p),
           NEW status \in {200, 404, 500}, NEW s \in 0..MaxSessions, Respond(c, status, s),
           status # 404 => Scoped(c, s)
    PROVE  IInv'
  <1> DEFINE a == Answer(c, status, s, {}, {})
  <1>1. answer' = a
    BY DEF Respond
  <1>2. a \in AnswerRecords /\ a.client = c /\ a.status = status /\ a.session = s
        /\ a.items = {} /\ a.expected = {}
    BY AnswerMade
  <1> HIDE DEF a
  <1>3. AnswerInv'
    <2>1. Told' = (IF status \in {200, 500} THEN {s} ELSE {}) /\ clock' = clock /\ creator' = creator
      BY <1>1, <1>2 DEF Told, tables
    <2> QED
      BY <1>1, <1>2, <2>1 DEF AnswerInv, Scoped
  <1>4. PagesCover'
    BY <1>1, <1>2 DEF PagesCover
  <1>5. answer' \in AnswerRecords
    BY <1>1, <1>2
  <1> QED
    BY <1>3, <1>4, <1>5, RequestStep

LEMMA GetKeeps ==
    ASSUME IInv, NEW c \in Clients, NEW s \in 1..clock, get_session(c, s) \/ session_events(c, s)
    PROVE  IInv'
  <1>1. /\ UNCHANGED <<tables, token>> /\ token[c] # 0 /\ call \in [Clients -> CallRecords]
        /\ call[c].op = "none" /\ CallScoped(c, call[c]) /\ call[c] \in CallRecords
        /\ clock \in 0..MaxSessions
    BY DEF get_session, session_events, Authorised, IInv, TypeOK, CallInv
  <1>2. s \in 0..MaxSessions
    BY <1>1, AccountsAssumption
  <1>3. s \in Owned(token[c]) => Scoped(c, s)
    BY <1>1, OwnedScoped DEF IInv
  <1>4. call = [call EXCEPT ![c] = call[c]]
    BY <1>1
  <1>5. CASE get_session(c, s)
    <2> DEFINE status == IF s \in Owned(token[c]) THEN SessionDetail(s) ELSE 404
    <2>1. status \in {200, 404, 500} /\ (status # 404 => Scoped(c, s))
      BY <1>3 DEF SessionDetail
    <2>2. Respond(c, status, s) /\ call' = call
      BY <1>5 DEF get_session
    <2> HIDE DEF status
    <2> QED
      BY <1>1, <1>2, <1>4, <2>1, <2>2, RespondKeeps
  <1>6. CASE session_events(c, s)
    <2>1. CASE s \in Owned(token[c])
      <3> DEFINE p == [Idle EXCEPT !.op = "events", !.session = s]
      <3>1. call' = [call EXCEPT ![c] = p] /\ answer' = answer
        BY <1>6, <2>1 DEF session_events, Begin
      <3>2. p \in CallRecords /\ p.op = "events" /\ p.session = s /\ p.seen = {} /\ p.rows = {}
        BY <1>2, IdleRecord DEF Idle, CallRecords
      <3> HIDE DEF p
      <3>3. CallScoped(c, p)
        BY <1>1, <1>3, <2>1, <3>2 DEF CallScoped
      <3> QED
        BY <1>1, <3>1, <3>2, <3>3, SilentStep
    <2>2. CASE s \notin Owned(token[c])
      <3>1. Respond(c, 404, s) /\ call' = call
        BY <1>6, <2>2 DEF session_events
      <3> QED
        BY <1>1, <1>2, <1>4, <3>1, RespondKeeps
    <2> QED
      BY <2>1, <2>2
  <1> QED
    BY <1>5, <1>6

LEMMA EventsKeeps == ASSUME IInv, NEW c \in Clients, EventsRead(c) PROVE IInv'
  <1>1. /\ UNCHANGED <<tables, token>> /\ call[c].op = "events" /\ CallScoped(c, call[c])
        /\ call[c] \in CallRecords /\ call' = [call EXCEPT ![c] = Idle]
        /\ Respond(c, 200, call[c].session)
    BY DEF EventsRead, End, IInv, TypeOK, CallInv
  <1>2. call[c].session \in 0..MaxSessions /\ Scoped(c, call[c].session)
    BY <1>1 DEF CallRecords, CallScoped
  <1>3. CallScoped(c, Idle) /\ Idle \in CallRecords 
        /\ (resets = 0 /\ Idle.op = "list" => Reading(Owned(token[c]), Idle))
    BY IdleRecord DEF CallScoped
  <1> DEFINE s == call[c].session
             status == 200
  <1>4. status \in {200, 404, 500} /\ s \in 0..MaxSessions
    BY <1>2
  <1>5. Respond(c, status, s)
    BY <1>1
  <1>6. status # 404 => Scoped(c, s)
    BY <1>2
  <1>7. call' = [call EXCEPT ![c] = Idle] /\ UNCHANGED <<tables, token>>
    BY <1>1
  <1> HIDE DEF s, status
  <1> QED
    BY <1>3, <1>4, <1>5, <1>6, <1>7, RespondKeeps, ZenonT(40)

(* A client gets a token of its account, or loses the one it has.  Rows of *)
(* users may be added, never changed.                                      *)
LEMMA TokenStep ==
    ASSUME IInv, UNCHANGED <<sessions, clock, creator, resets, answer>>,
           users' \in Seq([email : Range(Email), password : Range(Password)]),
           Len(users) <= Len(users'), \A k \in DOMAIN users : users'[k] = users[k],
           \A j, k \in DOMAIN users' : users'[j].email = users'[k].email => j = k,
           NEW c \in Clients, NEW i \in 0..Len(users'),
           i # 0 => users'[i] = [email |-> Email[c], password |-> Password[c]],
           token' = [token EXCEPT ![c] = i],
           NEW p \in CallRecords, call' = [call EXCEPT ![c] = p],
           p.op \notin {"create", "list", "events"}, \A s \in p.seen \cup p.rows : Scoped(c, s)
    PROVE  IInv'
  <1> USE DEF IInv
  <1>1. /\ users \in Seq([email : Range(Email), password : Range(Password)])
        /\ sessions \subseteq [id : Ids, user : DOMAIN users, output : BOOLEAN]
        /\ token \in [Clients -> 0..Len(users)] /\ call \in [Clients -> CallRecords]
    BY DEF TypeOK
  <1>2. /\ DOMAIN users = 1..Len(users) /\ DOMAIN users' = 1..Len(users')
        /\ Len(users) \in Nat /\ Len(users') \in Nat
    BY <1>1
  <1>3. DOMAIN users \subseteq DOMAIN users' /\ 0..Len(users) \subseteq 0..Len(users')
    BY <1>2
  <1>4. /\ token' \in [Clients -> 0..Len(users')] /\ token'[c] = i
        /\ \A d \in Clients \ {c} : token'[d] = token[d]
    BY <1>1, <1>3
  <1>5. /\ call' \in [Clients -> CallRecords] /\ call'[c] = p
        /\ \A d \in Clients \ {c} : call'[d] = call[d]
    BY <1>1
  <1>6. TypeOK'
    <2>1. sessions' \subseteq [id : Ids, user : DOMAIN users', output : BOOLEAN]
      BY <1>1, <1>3
    <2> QED
      BY <1>4, <1>5, <2>1 DEF TypeOK
  <1>7. OneAccount'
    <2> SUFFICES ASSUME NEW d \in Clients, token'[d] # 0
                 PROVE  users'[token'[d]] = [email |-> Email[d], password |-> Password[d]]
      BY DEF OneAccount
    <2>1. CASE d # c
      <3>1. token[d] \in DOMAIN users /\ token'[d] = token[d]
        BY <1>1, <1>2, <1>4, <2>1
      <3> QED
        BY <3>1 DEF OneAccount
    <2> QED
      BY <1>4, <2>1
  <1>8. RowInv'
    <2>1. \A x \in sessions : x.user \in DOMAIN users
      BY <1>1
    <2> QED
      BY <2>1 DEF RowInv
  <1>9. CallInv'
    <2> SUFFICES ASSUME NEW d \in Clients
                 PROVE  /\ call'[d].op \in {"create", "list", "events"} => token'[d] # 0
                        /\ call'[d].op \in {"create", "events"} => Scoped(d, call'[d].session)
                        /\ \A s \in call'[d].seen \cup call'[d].rows : Scoped(d, s)
      BY DEF CallInv, CallScoped, Scoped
    <2>1. CASE d # c
      BY <1>4, <1>5, <2>1 DEF CallInv, CallScoped
    <2> QED
      BY <1>5, <2>1
  <1>10. AnswerInv' /\ PagesCover'
    BY DEF AnswerInv, Told, Scoped, PagesCover
  <1>11. ReadInv'
    <2> SUFFICES ASSUME NEW d \in Clients, resets = 0, call'[d].op = "list"
                 PROVE  Reading(Owned(token'[d]), call'[d])
      BY DEF ReadInv, Owned
    <2> QED
      BY <1>4, <1>5 DEF ReadInv
  <1> QED
    BY <1>6, <1>7, <1>8, <1>9, <1>10, <1>11

LEMMA InsertKeeps == ASSUME IInv, NEW c \in Clients, RegisterInsert(c) PROVE IInv'
  <1>1. CallScoped(c, Idle) /\ (resets = 0 /\ Idle.op = "list" => Reading(Owned(token[c]), Idle))
    BY IdleRecord DEF CallScoped
  <1>2. call' = [call EXCEPT ![c] = Idle] /\ UNCHANGED <<sessions, clock, creator, resets, answer>>
    BY DEF RegisterInsert, End
  <1>3. CASE Conflicts(Email[c])
    <2>1. UNCHANGED <<tables, token, answer>>
      BY <1>2, <1>3 DEF RegisterInsert, tables
    <2> QED
      BY <1>1, <1>2, <2>1, IdleRecord, SilentStep
  <1>4. CASE ~Conflicts(Email[c])
    <2> DEFINE Rows == [email : Range(Email), password : Range(Password)]
               x == [email |-> Email[c], password |-> Password[c]]
               i == Len(users) + 1
    <2>1. x \in Rows /\ x.email = Email[c]
      BY AccountsAssumption DEF Range
    <2>2. users' = Append(users, x) /\ token' = [token EXCEPT ![c] = i]
      BY <1>4 DEF RegisterInsert
    <2>3. users \in Seq(Rows) /\ Len(users) \in Nat /\ DOMAIN users = 1..Len(users)
      BY DEF IInv, TypeOK
    <2>4. \A k \in DOMAIN users : users[k].email # Email[c]
      BY <1>4 DEF Conflicts, Registered
    <2>5. \A j, k \in DOMAIN users : users[j].email = users[k].email => j = k
      BY DEF IInv, OneAccount
    <2> HIDE DEF Rows, x
    <2>6. /\ users' \in Seq(Rows) /\ Len(users') = i /\ DOMAIN users' = 1..i /\ users'[i] = x
          /\ \A k \in DOMAIN users : users'[k] = users[k]
      BY <2>1, <2>2, <2>3
    <2>7. \A j, k \in DOMAIN users' : users'[j].email = users'[k].email => j = k
      <3>1. \A k \in DOMAIN users' : k \in DOMAIN users \/ k = i
        BY <2>3, <2>6
      <3> QED
        BY <2>1, <2>4, <2>5, <2>6, <3>1
    <2>8. i \in 0..Len(users') /\ Len(users) <= Len(users')
      BY <2>3, <2>6
    <2>9. /\ Idle.op \notin {"create", "list", "events"}
          /\ \A s \in Idle.seen \cup Idle.rows : Scoped(c, s)
      BY IdleRecord
    <2> HIDE DEF i
    <2> QED
      BY <1>2, <2>2, <2>6, <2>7, <2>8, <2>9, IdleRecord, TokenStep DEF x, Rows
  <1> QED
    BY <1>3, <1>4

LEMMA LoginKeeps ==
    ASSUME IInv, NEW c \in Clients, login(c) \/ TokenExpires(c)
    PROVE  IInv'
  <1>1. /\ users' = users /\ UNCHANGED <<sessions, clock, creator, resets, answer>>
        /\ UNCHANGED <<tables, answer>>
    BY DEF login, TokenExpires, tables
  <1>2. /\ users \in Seq([email : Range(Email), password : Range(Password)])
        /\ Len(users) \in Nat /\ DOMAIN users = 1..Len(users)
        /\ call \in [Clients -> CallRecords] /\ CallScoped(c, call[c])
        /\ \A j, k \in DOMAIN users : users[j].email = users[k].email => j = k
    BY DEF IInv, TypeOK, OneAccount, CallInv
  <1>3. /\ CallScoped(c, Idle) /\ (resets = 0 /\ Idle.op = "list" => Reading(Owned(token[c]), Idle))
        /\ Idle.op \notin {"create", "list", "events"}
        /\ \A s \in Idle.seen \cup Idle.rows : Scoped(c, s)
    BY IdleRecord DEF CallScoped
  <1>4. /\ users' \in Seq([email : Range(Email), password : Range(Password)])
        /\ Len(users) <= Len(users') /\ \A k \in DOMAIN users : users'[k] = users[k]
        /\ \A j, k \in DOMAIN users' : users'[j].email = users'[k].email => j = k
    BY <1>1, <1>2
  <1>5. ASSUME NEW i \in Matching(c), token' = [token EXCEPT ![c] = i],
               call' = [call EXCEPT ![c] = Idle]
        PROVE  IInv'
    <2>1. /\ i \in 0..Len(users')
          /\ users'[i] = [email |-> Email[c], password |-> Password[c]]
      BY <1>1, <1>2 DEF Matching
    <2> QED
      BY <1>1, <1>3, <1>5, <1>4, <2>1, IdleRecord, TokenStep
  <1>6. CASE TokenExpires(c)
    <2>1. /\ call[c] \in CallRecords /\ call' = [call EXCEPT ![c] = call[c]]
          /\ call[c].op \notin {"create", "list", "events"}
          /\ \A s \in call[c].seen \cup call[c].rows : Scoped(c, s)
      BY <1>2, <1>6 DEF TokenExpires, CallScoped
    <2>2. token' = [token EXCEPT ![c] = 0] /\ 0 \in 0..Len(users')
      BY <1>1, <1>2, <1>6 DEF TokenExpires
    <2> QED
      BY <1>1, <1>4, <2>1, <2>2, TokenStep
  <1>7. CASE login(c) /\ token' = token
    BY <1>1, <1>3, <1>7, IdleRecord, SilentStep DEF login, End
  <1> QED
    BY <1>5, <1>6, <1>7 DEF login, End

(* A session is begun: it has an id that nothing has yet.                  *)
LEMMA CreateKeeps == ASSUME IInv, NEW c \in Clients, create_session(c) PROVE IInv'
  <1> DEFINE n == clock + 1
             p == [Idle EXCEPT !.op = "create", !.session = n]
  <1>1. /\ clock \in 0..MaxSessions /\ creator \in [Ids -> Clients \cup {NoClient}]
        /\ call \in [Clients -> CallRecords] /\ answer \in AnswerRecords /\ MaxSessions \in Nat
    BY AccountsAssumption DEF IInv, TypeOK
  <1>2. /\ users' = users /\ sessions' = sessions /\ resets' = resets /\ token' = token
        /\ answer' = answer /\ clock < MaxSessions /\ clock' = n
        /\ creator' = [creator EXCEPT ![n] = c] /\ call' = [call EXCEPT ![c] = p] /\ token[c] # 0
    BY DEF create_session, Begin, Authorised
  <1>3. n \in Ids /\ n \in 1..clock' /\ n \in 0..MaxSessions /\ 1..clock \subseteq 1..clock'
        /\ 1..clock \subseteq Ids /\ n \notin 1..clock
    BY <1>1, <1>2 DEF Ids
  <1>4. /\ creator' \in [Ids -> Clients \cup {NoClient}] /\ creator'[n] = c
        /\ \A s \in 1..clock : creator'[s] = creator[s]
    BY <1>1, <1>2, <1>3
  <1>5. p \in CallRecords /\ p.op = "create" /\ p.session = n /\ p.seen = {} /\ p.rows = {}
    <2> HIDE DEF n
    <2> QED
      BY <1>3, IdleRecord DEF Idle, CallRecords
  <1> HIDE DEF p
  <1>6. /\ call' \in [Clients -> CallRecords] /\ call'[c] = p
        /\ \A d \in Clients \ {c} : call'[d] = call[d]
    BY <1>1, <1>2, <1>5
  <1> DEFINE Then(d, s) ==
               s \in 1..clock' /\ creator'[s] \in Clients /\ Email[creator'[s]] = Email[d]
  <1>7. ASSUME NEW d, NEW s, Scoped(d, s)
        PROVE  Then(d, s)
    BY <1>3, <1>4, <1>7 DEF Scoped
  <1>8. TypeOK'
    BY <1>2, <1>3, <1>4, <1>6 DEF IInv, TypeOK
  <1>9. OneAccount' /\ PagesCover'
    BY <1>2 DEF IInv, OneAccount, PagesCover
  <1>10. RowInv'
    <2> SUFFICES ASSUME NEW x \in sessions
                 PROVE  /\ x.id \in 1..clock' /\ creator'[x.id] \in Clients
                        /\ users[x.user].email = Email[creator'[x.id]]
      BY <1>2 DEF RowInv
    <2> QED
      BY <1>3, <1>4 DEF IInv, RowInv
  <1>11. CallInv'
    <2> SUFFICES ASSUME NEW d \in Clients
                 PROVE  /\ call'[d].op \in {"create", "list", "events"} => token[d] # 0
                        /\ call'[d].op \in {"create", "events"} => Then(d, call'[d].session)
                        /\ \A s \in call'[d].seen \cup call'[d].rows : Then(d, s)
      BY <1>2 DEF CallInv, CallScoped, Scoped
    <2>1. CASE d # c
      <3>1. CallScoped(d, call[d])
        BY DEF IInv, CallInv
      <3> QED
        BY <1>6, <1>7, <2>1, <3>1 DEF CallScoped
    <2>2. CASE d = c
      BY <1>2, <1>3, <1>4, <1>5, <1>6, <2>2 DEF Scoped
    <2> QED
      BY <2>1, <2>2
  <1>12. AnswerInv'
    <2>1. Told' = Told
      BY <1>2 DEF Told
    <2> QED
      BY <1>2, <1>7, <2>1 DEF IInv, AnswerInv, Scoped
  <1>13. ReadInv'
    <2> SUFFICES ASSUME NEW d \in Clients, resets = 0, call'[d].op = "list"
                 PROVE  Reading(Owned(token[d]), call'[d])
      BY <1>2 DEF ReadInv, Owned
    <2> QED
      BY <1>5, <1>6 DEF IInv, ReadInv
  <1> QED
    BY <1>8, <1>9, <1>10, <1>11, <1>12, <1>13 DEF IInv

(* Rows that are committed while a client reads come before the ones it    *)
(* has still to see, or after them, and hide none.                         *)
LEMMA ReadingGrows ==
    ASSUME NEW S, NEW T, S \subseteq T, T \subseteq Ids, NEW p \in CallRecords, Reading(S, p)
    PROVE  Reading(T, p)
  <1>1. \A s : Rank(S, s) <= Rank(T, s) /\ Rank(S, s) \in Nat /\ Rank(T, s) \in Nat
    BY RankGrows, RankNat
  <1>2. p.offset \in Nat /\ p.offset + Limit \in Nat
    BY AccountsAssumption DEF CallRecords
  <1> QED
    BY <1>1, <1>2 DEF Reading

(* The rows of sessions change; a client may be done.                      *)
LEMMA RowsStep ==
    ASSUME IInv, UNCHANGED <<users, clock, creator, token, answer>>,
           sessions' \subseteq [id : Ids, user : DOMAIN users, output : BOOLEAN], RowInv',
           resets' \in 0..MaxResets,
           resets' = 0 => resets = 0 /\ \A u : Owned(u) \subseteq Owned(u)',
           call' \in [Clients -> CallRecords],
           \A d \in Clients : call'[d] \in {call[d], Idle}
    PROVE  IInv'
  <1>1. TypeOK'
    BY DEF IInv, TypeOK
  <1>2. OneAccount' /\ PagesCover' /\ AnswerInv'
    BY DEF IInv, OneAccount, PagesCover, AnswerInv, Told, Scoped
  <1>3. CallInv'
    <2> SUFFICES ASSUME NEW d \in Clients PROVE CallScoped(d, call'[d])
      BY DEF CallInv, CallScoped, Scoped
    <2>1. CallScoped(d, Idle)
      BY IdleRecord DEF CallScoped
    <2> QED
      BY <2>1 DEF IInv, CallInv
  <1>4. ReadInv'
    <2> SUFFICES ASSUME NEW d \in Clients, resets' = 0, call'[d].op = "list"
                 PROVE  Reading(Owned(token[d]), call[d])'
      BY DEF ReadInv
    <2>1. call'[d] = call[d]
      BY IdleRecord
    <2>2. Reading(Owned(token[d]), call[d]) /\ call[d] \in CallRecords
      BY <2>1 DEF IInv, ReadInv, TypeOK
    <2> DEFINE S == Owned(token[d])
               T == {r.id : r \in {r \in sessions' : r.user = token[d]}}
    <2>3. S \subseteq T
      BY DEF Owned
    <2>4. T \subseteq Ids
      OBVIOUS
    <2>5. T = Owned(token[d])'
      BY DEF Owned
    <2> HIDE DEF T, S
    <2>6. Reading(T, call[d])
      BY <2>2, <2>3, <2>4, ReadingGrows DEF S
    <2> QED
      BY <2>1, <2>5, <2>6 DEF Reading
  <1> QED
    BY <1>1, <1>2, <1>3, <1>4 DEF IInv

LEMMA CommitKeeps == ASSUME IInv, NEW c \in Clients, CreateCommit(c) PROVE IInv'
  <1> DEFINE s == call[c].session
             x == [id |-> s, user |-> token[c], output |-> FALSE]
  <1>1. /\ sessions' = sessions \cup {x} /\ call' = [call EXCEPT ![c] = Idle]
        /\ UNCHANGED <<users, clock, creator, token, answer>> /\ resets' = resets
        /\ call[c].op = "create"
    BY DEF CreateCommit, End
  <1>2. token[c] # 0 /\ Scoped(c, s)
    BY <1>1 DEF IInv, CallInv, CallScoped
  <1>3. /\ sessions \subseteq [id : Ids, user : DOMAIN users, output : BOOLEAN]
        /\ call \in [Clients -> CallRecords] /\ resets \in 0..MaxResets
        /\ token[c] \in DOMAIN users /\ s \in Ids
    BY <1>2, AccountsAssumption DEF IInv, TypeOK, Scoped, Ids
  <1> HIDE DEF s
  <1>4. x \in [id : Ids, user : DOMAIN users, output : BOOLEAN] /\ x.id = s /\ x.user = token[c]
    BY <1>3
  <1> HIDE DEF x
  <1>5. RowInv'
    <2>1. users[token[c]] = [email |-> Email[c], password |-> Password[c]]
      BY <1>2 DEF IInv, OneAccount
    <2>2. users[token[c]].email = Email[c]
      BY <2>1
    <2> QED
      BY <1>1, <1>2, <1>4, <2>2 DEF IInv, RowInv, Scoped
  <1>6. \A u : Owned(u) \subseteq Owned(u)'
    BY <1>1 DEF Owned
  <1>7. call' \in [Clients -> CallRecords] /\ \A d \in Clients : call'[d] \in {call[d], Idle}
    BY <1>1, <1>3, IdleRecord
  <1>8. sessions' \subseteq [id : Ids, user : DOMAIN users, output : BOOLEAN]
    BY <1>1, <1>3, <1>4
  <1> QED
    BY <1>1, <1>3, <1>5, <1>6, <1>7, <1>8, RowsStep

LEMMA CompleteKeeps == ASSUME IInv, NEW r \in sessions, RunCompletes(r) PROVE IInv'
  <1> DEFINE x == [r EXCEPT !.output = TRUE]
  <1>1. /\ sessions' = (sessions \ {r}) \cup {x} /\ call' = call
        /\ UNCHANGED <<users, clock, creator, token, answer>> /\ resets' = resets
    BY DEF RunCompletes
  <1>2. /\ sessions \subseteq [id : Ids, user : DOMAIN users, output : BOOLEAN]
        /\ call \in [Clients -> CallRecords] /\ resets \in 0..MaxResets
    BY DEF IInv, TypeOK
  <1>3. x \in [id : Ids, user : DOMAIN users, output : BOOLEAN] /\ x.id = r.id /\ x.user = r.user
    BY <1>2
  <1> HIDE DEF x
  <1>4. RowInv'
    BY <1>1, <1>3 DEF IInv, RowInv
  <1>5. \A u : Owned(u) \subseteq Owned(u)'
    BY <1>1, <1>3 DEF Owned
  <1>6. sessions' \subseteq [id : Ids, user : DOMAIN users, output : BOOLEAN]
    BY <1>1, <1>2, <1>3
  <1> QED
    BY <1>1, <1>2, <1>4, <1>5, <1>6, RowsStep

LEMMA ResetKeeps == ASSUME IInv, _reset_postgres PROVE IInv'
  <1>1. /\ sessions' = {} /\ call' = call /\ UNCHANGED <<users, clock, creator, token, answer>>
        /\ resets < MaxResets /\ resets' = resets + 1
    BY DEF _reset_postgres
  <1>2. call \in [Clients -> CallRecords] /\ resets \in 0..MaxResets
    BY DEF IInv, TypeOK
  <1>3. resets' \in 0..MaxResets /\ resets' # 0
    BY <1>1, <1>2, AccountsAssumption
  <1>4. RowInv'
    BY <1>1 DEF RowInv
  <1> QED
    BY <1>1, <1>2, <1>3, <1>4, RowsStep

-----------------------------------------------------------------------------
LEMMA IInvStep == IInv /\ [Next]_vars => IInv'
  <1> SUFFICES ASSUME IInv, [Next]_vars PROVE IInv'
    OBVIOUS
  <1>1. CASE UNCHANGED vars
    <2>1. /\ users' = users /\ sessions' = sessions /\ clock' = clock /\ creator' = creator
          /\ resets' = resets /\ token' = token /\ call' = call /\ answer' = answer
      BY <1>1 DEF vars, tables
    <2>2. TypeOK' /\ OneAccount' /\ RowInv'
      BY <2>1 DEF IInv, TypeOK, OneAccount, RowInv
    <2>3. CallInv' /\ AnswerInv'
      BY <2>1 DEF IInv, CallInv, CallScoped, AnswerInv, Told, Scoped
    <2>4. ReadInv' /\ PagesCover'
      BY <2>1 DEF IInv, ReadInv, Reading, Owned, PagesCover
    <2> QED
      BY <2>2, <2>3, <2>4 DEF IInv
  <1>2. ASSUME NEW c \in Clients, Step(c) PROVE IInv'
    BY <1>2, InsertKeeps, CommitKeeps, ListFirstKeeps, ListSecondKeeps, EventsKeeps DEF Step
  <1>3. ASSUME NEW c \in Clients, Request(c) PROVE IInv'
    BY <1>3, RegisterKeeps, LoginKeeps, CreateKeeps, ListKeeps, GetKeeps DEF Request
  <1>4. ASSUME NEW c \in Clients, TokenExpires(c) PROVE IInv'
    BY <1>4, LoginKeeps
  <1> QED
    BY <1>1, <1>2, <1>3, <1>4, CompleteKeeps, ResetKeeps DEF Next

(* The invariant holds in every state that the requests reach.             *)
THEOREM Inductive == Spec => []IInv
  BY InitIInv, IInvStep, PTL DEF Spec

(* Type correctness of the tables, the tokens, the requests under way and  *)
(* the answers.                                                            *)
THEOREM TypeCorrect == Spec => []TypeOK
  <1>1. IInv => TypeOK
    BY DEF IInv
  <1> QED
    BY <1>1, Inductive, PTL

(* Whichever way registrations interleave, an email has one account, and a *)
(* token is one for the account whose email and password the client gave.  *)
THEOREM OneAccountHolds == Spec => []OneAccount
  <1>1. IInv => OneAccount
    BY DEF IInv
  <1> QED
    BY <1>1, Inductive, PTL

(* No request shows a client a session of another account.                 *)
THEOREM AnswersScopedHolds == Spec => []AnswersScoped
  <1>1. IInv => AnswersScoped
    BY DEF IInv, AnswerInv, Told, Scoped, AnswersScoped
  <1> QED
    BY <1>1, Inductive, PTL

(* Reading all pages shows every session that was there at the beginning,  *)
(* for any page size and any number of sessions committed meanwhile.       *)
THEOREM PagesCoverHolds == Spec => []PagesCover
  <1>1. IInv => PagesCover
    BY DEF IInv
  <1> QED
    BY <1>1, Inductive, PTL
=============================================================================
