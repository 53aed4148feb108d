------------------------------ MODULE Accounts ------------------------------
(***************************************************************************)
(* The REST requests about accounts and the reading of sessions:           *)
(* backend/api/routes/sessions.py with get_current_user of                 *)
(* backend/api/deps.py, the tables of migrations/001_init.sql, the clients *)
(* (scripts/eval_accuracy.py, frontend/src/lib/api.ts) and the development *)
(* script that empties the tables (scripts/reset_memory.py).               *)
(*                                                                         *)
(* Every SQL statement is a step; statements of other requests come        *)
(* between.  A user's id is its position, a session's its created_at; a    *)
(* token is the id that it was made for, 0 if the client has none.  Rows   *)
(* of users are never removed or deactivated, so that looking up a token's *)
(* user needs no step of its own; nothing reads last_login_at.             *)
(***************************************************************************)
EXTENDS Integers, FiniteSets, Sequences, Functions

CONSTANTS
    Clients, Email, Password,   \* the credentials that each client uses
    Limit,          \* rows of a page
    MaxSessions,    \* bound: sessions created
    MaxResets       \* bound: uses of the script

ASSUME AccountsAssumption ==
    /\ IsFiniteSet(Clients)
    /\ DOMAIN Email = Clients /\ DOMAIN Password = Clients
    /\ Limit \in 1..100
    /\ MaxSessions \in Nat /\ MaxResets \in Nat

VARIABLES
    users, sessions,    \* the tables
    clock,              \* now(), as the number of sessions begun
    creator,            \* history: who created each session
    token, call,        \* of each client: its token, and what it is doing
    answer,             \* the last response about sessions
    resets

tables == <<users, sessions, clock, creator, resets>>
vars == <<tables, token, call, answer>>

Ids == 1..MaxSessions
NoClient == "none"
Idle == [op |-> "none", session |-> 0, step |-> 1, offset |-> 0, total |-> 0,
         rows |-> {}, seen |-> {}, expected |-> {}]
Answer(c, status, s, items, expected) ==
    [client |-> c, status |-> status, session |-> s, items |-> items, expected |-> expected]
NoAnswer == Answer(NoClient, 0, 0, {}, {})

CallRecords ==
    [op : {"none", "insert", "login", "create", "list", "events"}, session : 0..MaxSessions,
     step : 1..2, offset : Nat, total : Nat,
     rows : SUBSET Ids, seen : SUBSET Ids, expected : SUBSET Ids]
AnswerRecords ==
    [client : Clients \cup {NoClient}, status : {0, 200, 404, 500},
     session : 0..MaxSessions, items : SUBSET Ids, expected : SUBSET Ids]

TypeOK ==
    /\ users \in Seq([email : Range(Email), password : Range(Password)])
    /\ sessions \subseteq [id : Ids, user : DOMAIN users, output : BOOLEAN]
    /\ clock \in 0..MaxSessions
    /\ creator \in [Ids -> Clients \cup {NoClient}]
    /\ token \in [Clients -> 0..Len(users)]
    /\ call \in [Clients -> CallRecords]
    /\ answer \in AnswerRecords
    /\ resets \in 0..MaxResets

Init ==
    /\ users = << >>
    /\ sessions = {}
    /\ clock = 0
    /\ creator = [s \in Ids |-> NoClient]
    /\ token = [c \in Clients |-> 0]
    /\ call = [c \in Clients |-> Idle]
    /\ answer = NoAnswer
    /\ resets = 0

Begin(c, op, s) == call' = [call EXCEPT ![c] = [Idle EXCEPT !.op = op, !.session = s]]
End(c) == call' = [call EXCEPT ![c] = Idle]
Respond(c, status, s) == answer' = Answer(c, status, s, {}, {})

Registered(e) == \E i \in DOMAIN users : users[i].email = e

(* Mutant: the column is not UNIQUE.                                       *)
ConflictsNever(e) == FALSE

(* users.email is UNIQUE.                                                  *)
Conflicts(e) == Registered(e)

-----------------------------------------------------------------------------
(* Accounts.                                                               *)

(* scripts/eval_accuracy.py logs in when it is told 409.                   *)
_register_or_login == "login"

(* register looks the email up.                                            *)
register(c) ==
    /\ call[c].op = "none" /\ token[c] = 0
    /\ Begin(c, IF Registered(Email[c]) THEN _register_or_login ELSE "insert", 0)
    /\ UNCHANGED <<tables, token, answer>>

(* The INSERT, or its exception, which is answered with 500.               *)
RegisterInsert(c) ==
    /\ call[c].op = "insert"
    /\ IF Conflicts(Email[c]) THEN UNCHANGED <<users, token>>
       ELSE /\ users' = Append(users, [email |-> Email[c], password |-> Password[c]])
            /\ token' = [token EXCEPT ![c] = Len(users) + 1]
    /\ End(c)
    /\ UNCHANGED <<sessions, clock, creator, resets, answer>>

(* The row with the client's email, if verify_password agrees.             *)
Matching(c) == {i \in DOMAIN users : users[i] = [email |-> Email[c], password |-> Password[c]]}

(* A token for the row's id, or 401.                                       *)
login(c) ==
    /\ call[c].op \in {"none", "login"} /\ token[c] = 0
    /\ \/ \E i \in Matching(c) : token' = [token EXCEPT ![c] = i]
       \/ Matching(c) = {} /\ UNCHANGED token
    /\ End(c)
    /\ UNCHANGED <<tables, answer>>

(* jwt_expiry_seconds have passed: get_current_user answers 401.           *)
TokenExpires(c) ==
    /\ call[c].op = "none" /\ token[c] # 0
    /\ token' = [token EXCEPT ![c] = 0]
    /\ UNCHANGED <<tables, call, answer>>

-----------------------------------------------------------------------------
(* Sessions.                                                               *)

Authorised(c) == call[c].op = "none" /\ token[c] # 0

(* now() is taken when the INSERT begins; rows may be committed in another *)
(* order.                                                                  *)
create_session(c) ==
    /\ Authorised(c)
    /\ clock < MaxSessions
    /\ clock' = clock + 1
    /\ creator' = [creator EXCEPT ![clock + 1] = c]
    /\ Begin(c, "create", clock + 1)
    /\ UNCHANGED <<users, sessions, resets, token, answer>>

CreateCommit(c) ==
    /\ call[c].op = "create"
    /\ sessions' = sessions \cup {[id |-> call[c].session, user |-> token[c], output |-> FALSE]}
    /\ End(c)
    /\ UNCHANGED <<users, clock, creator, resets, token, answer>>

(* Mutant: the user is not part of the WHERE clause.                       *)
OwnedAll(u) == {r.id : r \in sessions}

(* WHERE user_id = $1.                                                     *)
Owned(u) == {r.id : r \in {r \in sessions : r.user = u}}

(* ORDER BY created_at DESC LIMIT Limit OFFSET n.                          *)
Page(S, n) == {s \in S : Cardinality({q \in S : q > s}) \in n..(n + Limit - 1)}

(* Mutant: the rows are counted before they are read.                      *)
StatementsSwapped == <<"COUNT", "SELECT">>

Statements == <<"SELECT", "COUNT">>

(* A client reads all its sessions, page by page.                          *)
list_sessions(c) ==
    /\ Authorised(c)
    /\ call' = [call EXCEPT ![c] = [Idle EXCEPT !.op = "list", !.expected = Owned(token[c])]]
    /\ UNCHANGED <<tables, token, answer>>

Read(c) ==
    LET p == call[c]
    IN  IF Statements[p.step] = "SELECT" THEN [p EXCEPT !.rows = Page(Owned(token[c]), p.offset)]
        ELSE [p EXCEPT !.total = Cardinality(Owned(token[c]))]

ListFirst(c) ==
    /\ call[c].op = "list" /\ call[c].step = 1
    /\ call' = [call EXCEPT ![c] = [Read(c) EXCEPT !.step = 2]]
    /\ UNCHANGED <<tables, token, answer>>

(* The response; the client asks for the next page if total says that      *)
(* there is one.  The answer stands for all the pages.                     *)
ListSecond(c) ==
    LET p == Read(c)
        seen == p.seen \cup p.rows
    IN  /\ call[c].op = "list" /\ call[c].step = 2
        /\ IF p.offset + Limit < p.total
           THEN /\ call' = [call EXCEPT ![c] = [Idle EXCEPT !.op = "list", !.offset = p.offset + Limit,
                                                !.seen = seen, !.expected = p.expected]]
                /\ UNCHANGED answer
           ELSE /\ End(c)
                /\ answer' = Answer(c, 200, 0, seen, p.expected)
        /\ UNCHANGED <<tables, token>>

(* asyncpg returns JSONB as text, and final_output must be an object or    *)
(* null: a session with an output is answered with 500.                    *)
SessionDetail(s) == IF \E r \in sessions : r.id = s /\ r.output THEN 500 ELSE 200

get_session(c, s) ==
    /\ Authorised(c)
    /\ Respond(c, IF s \in Owned(token[c]) THEN SessionDetail(s) ELSE 404, s)
    /\ UNCHANGED <<tables, token, call>>

session_events(c, s) ==
    /\ Authorised(c)
    /\ \/ s \in Owned(token[c]) /\ Begin(c, "events", s) /\ UNCHANGED answer
       \/ s \notin Owned(token[c]) /\ Respond(c, 404, s) /\ UNCHANGED call
    /\ UNCHANGED <<tables, token>>

(* Nothing writes audit_log.                                               *)
EventsRead(c) ==
    /\ call[c].op = "events"
    /\ Respond(c, 200, call[c].session)
    /\ End(c)
    /\ UNCHANGED <<tables, token>>

-----------------------------------------------------------------------------
(* A run of the session ends (see SessionService).                         *)
RunCompletes(r) ==
    /\ r \in sessions /\ ~r.output
    /\ sessions' = (sessions \ {r}) \cup {[r EXCEPT !.output = TRUE]}
    /\ UNCHANGED <<users, clock, creator, resets, token, call, answer>>

(* TRUNCATE TABLE sessions, users staying.                                 *)
_reset_postgres ==
    /\ resets < MaxResets
    /\ resets' = resets + 1
    /\ sessions' = {}
    /\ UNCHANGED <<users, clock, creator, token, call, answer>>

Step(c) ==
    \/ RegisterInsert(c) \/ CreateCommit(c)
    \/ ListFirst(c) \/ ListSecond(c) \/ EventsRead(c)

Request(c) ==
    \/ register(c) \/ login(c) \/ create_session(c) \/ list_sessions(c)
    \/ \E s \in 1..clock : get_session(c, s) \/ session_events(c, s)

Next ==
    \/ \E c \in Clients : Step(c) \/ Request(c) \/ TokenExpires(c)
    \/ \E r \in sessions : RunCompletes(r)
    \/ _reset_postgres

Spec == Init /\ [][Next]_vars

-----------------------------------------------------------------------------
(* Properties.                                                             *)

(* Two registrations may both find the email free.  Still there is one     *)
(* account for an email, and who holds a token holds that of the account   *)
(* with its email and knows its password.                                  *)
OneAccount ==
    /\ \A i, j \in DOMAIN users : users[i].email = users[j].email => i = j
    /\ \A c \in Clients :
         token[c] # 0 => users[token[c]] = [email |-> Email[c], password |-> Password[c]]

(* What a client is shown, whichever request shows it, was created by a    *)
(* client of the same account.                                             *)
AnswersScoped ==
    \A s \in answer.items \cup (IF answer.status \in {200, 500} THEN {answer.session} ELSE {}) :
        s # 0 => Email[creator[s]] = Email[answer.client]

(* A client that reads page after page until it has as many as total says  *)
(* sees every session that was there when it began, though other sessions  *)
(* are created and committed meanwhile, in another order than they were    *)
(* begun; unless the table was emptied.                                    *)
PagesCover ==
    resets = 0 => answer.expected \subseteq answer.items
=============================================================================
