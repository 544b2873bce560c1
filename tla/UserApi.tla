-------------------------------- MODULE UserApi --------------------------------
(***************************************************************************)
(* aspect-examples/src/api_server.rs: handlers that share a database of    *)
(* users under one mutex. A handler checks its arguments, sleeps, and only *)
(* then locks the database for a single operation. The logging and timing  *)
(* aspects around it pass the result on.                                   *)
(***************************************************************************)
EXTENDS Integers, FiniteSets

CONSTANTS
  Handlers,    \* threads that serve requests
  Ids,         \* ids of users
  Posted,      \* what is posted: records of id, username and email
  InitialIds,  \* the users of init_database
  MaxRequests  \* bound on the requests

ASSUME UserApiAssumption ==
  /\ Ids # {} /\ InitialIds \subseteq Ids /\ MaxRequests \in Nat
  /\ \A p \in Posted : p.id \in Ids

VARIABLES
  database,   \* the users by id, {} for none
  requests,   \* what each handler is doing, or what came of its latest request
  served,     \* requests so far
  accepted,   \* audit: for each id, posts that were answered with Ok
  removed     \* audit: for each id, deletes that were answered with true

apiVars == <<database, requests, served, accepted, removed>>

-----------------------------------------------------------------------------

Initially(id) == [id |-> id, username |-> "name", email |-> "a@b"]

Request(kind, id, body, stage) ==
  [kind |-> kind, id |-> id, body |-> body, stage |-> stage,
   result |-> "none", users |-> {}]

ApiInit ==
  /\ database = [id \in Ids |-> IF id \in InitialIds THEN {Initially(id)} ELSE {}]
  /\ requests = [h \in Handlers |->
       Request("list", CHOOSE id \in Ids : TRUE, {}, "answered")]
  /\ served = 0
  /\ accepted = [id \in Ids |-> 0]
  /\ removed = [id \in Ids |-> 0]

\* A request comes in; the handler is "sleeping" when it has checked it.
Receive(h, request) ==
  /\ requests[h].stage = "answered"
  /\ served < MaxRequests
  /\ served' = served + 1
  /\ requests' = [requests EXCEPT ![h] = request]
  /\ UNCHANGED <<database, accepted, removed>>

GetUser(h, id) == Receive(h, Request("get", id, {}, "sleeping"))
ListUsers(h) == Receive(h, Request("list", CHOOSE id \in Ids : TRUE, {}, "sleeping"))
DeleteById(h, id) == Receive(h, Request("delete", id, {}, "sleeping"))

Refuse(p) == p.username = "" \/ p.email = "no at sign"

PostUser(h, p) ==
  LET request == Request("post", p.id, {p}, "sleeping")
  IN  Receive(h, IF Refuse(p)
                 THEN [request EXCEPT !.stage = "answered", !.result = "err"]
                 ELSE request)

Answer(h, result, users) ==
  requests' = [requests EXCEPT ![h].stage = "answered", ![h].result = result,
                               ![h].users = users]

Awake(h, kind) == requests[h].stage = "sleeping" /\ requests[h].kind = kind

\* insert replaces the user that has the id, if there is one.
InsertUser(h) ==
  /\ Awake(h, "post")
  /\ database' = [database EXCEPT ![requests[h].id] = requests[h].body]
  /\ Answer(h, "ok", requests[h].body)
  /\ accepted' = [accepted EXCEPT ![requests[h].id] = @ + 1]
  /\ UNCHANGED <<served, removed>>

\* Mutant: whether there is a user is looked up when the request comes in.
RemoveBlindly(h) ==
  /\ Awake(h, "delete")
  /\ database' = [database EXCEPT ![requests[h].id] = {}]
  /\ Answer(h, "ok", {})
  /\ removed' = [removed EXCEPT ![requests[h].id] = @ + 1]
  /\ UNCHANGED <<served, accepted>>

RemoveUser(h) ==
  /\ Awake(h, "delete")
  /\ LET id == requests[h].id
         found == database[id] # {} IN
     /\ database' = [database EXCEPT ![id] = {}]
     /\ Answer(h, IF found THEN "ok" ELSE "none", {})
     /\ removed' = [removed EXCEPT ![id] = IF found THEN @ + 1 ELSE @]
  /\ UNCHANGED <<served, accepted>>

ReadUsers(h) ==
  /\ \/ Awake(h, "get") /\ Answer(h, "ok", database[requests[h].id])
     \/ Awake(h, "list") /\ Answer(h, "ok", UNION {database[id] : id \in Ids})
  /\ UNCHANGED <<database, served, accepted, removed>>

ApiNext ==
  \E h \in Handlers :
    \/ \E id \in Ids : GetUser(h, id) \/ DeleteById(h, id)
    \/ ListUsers(h)
    \/ \E p \in Posted : PostUser(h, p)
    \/ InsertUser(h) \/ RemoveUser(h) \/ ReadUsers(h)

ApiSpec == ApiInit /\ [][ApiNext]_apiVars

-----------------------------------------------------------------------------
(* Safety *)

ApiTypeOK ==
  /\ \A id \in Ids : Cardinality(database[id]) <= 1 /\ \A u \in database[id] : u.id = id
  /\ \A h \in Handlers : requests[h].stage \in {"sleeping", "answered"}
  /\ served \in 0..MaxRequests

\* A user is there after as many successful deletes as posts or fewer, however
\* the requests overlap: no delete is told that it removed what another one has
\* removed, and while posts are ahead by more than the users they replaced the
\* user stays. Whatever a handler is shown had a name and an email address
\* (api_server.rs:53-107).
UsersAreAccounted ==
  /\ \A id \in Ids :
       LET initially == IF id \in InitialIds THEN 1 ELSE 0
           there == Cardinality(database[id])
       IN  /\ removed[id] + there <= accepted[id] + initially
           /\ removed[id] = 0 => (there = 1 <=> accepted[id] + initially > 0)
  /\ \A h \in Handlers : \A u \in requests[h].users :
       u.username # "" /\ u.email # "no at sign"
===============================================================================
