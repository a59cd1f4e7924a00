--------------------------- MODULE SourceConnections ---------------------------
(****************************************************************************)
(* The connection of an organization to one account of a source provider:   *)
(* authorization with a one-time OAuth state, the sealed credential, its    *)
(* refresh by workers, subscriptions to files of the account, and           *)
(* disconnecting (governance-persistence and governance-api,                *)
(* source_connections.rs).                                                  *)
(*                                                                          *)
(* One actor and one account: the unique index of source_connections allows *)
(* one row.  A credential is named by the connection id it was encrypted    *)
(* for, which the cipher demands again when it is opened.  That a state or  *)
(* an access token expires may happen at any time.                          *)
(****************************************************************************)
EXTENDS Rows

CONSTANTS
    ConnectionIds,   \* ids that callbacks draw for new connections
    OAuthStates,     \* authorizations that people start
    Callbacks,       \* callback requests
    Files            \* files of the account

(* The row of a connection.                                                 *)
Connections ==
    [credential : ConnectionIds \cup {None}, id : ConnectionIds,
     status : {"active", "reauthorization_required", "disconnected"}]

ASSUME ConnectionAssumption == None \notin ConnectionIds \cup OAuthStates \cup Connections

VARIABLES
    oauth,      \* oauth[s]: "none", "open" or "used"
    callback,   \* callback[k]: where the request stands, its state and its id
    conn,       \* the row of the connection: [id, status, credential], or None
    sub         \* sub[f]: [status, last, seen], or None

connVars == <<oauth, callback, conn, sub>>

ConnInit ==
    /\ oauth = [s \in OAuthStates |-> "none"]
    /\ callback = [k \in Callbacks |-> [step |-> "new", state |-> None, id |-> None]]
    /\ conn = None
    /\ sub = [f \in Files |-> None]

Active == conn # None /\ conn.status = "active"

-----------------------------------------------------------------------------
(* Authorization *)

Authorize(s) ==
    /\ oauth[s] = "none"
    /\ oauth' = [oauth EXCEPT ![s] = "open"]
    /\ UNCHANGED <<callback, conn, sub>>

(* Faulty variant of Consumable: a consumed state is taken again.           *)
ConsumableAgain(s) == oauth[s] # "none"

Consumable(s) == oauth[s] = "open"

(* consume_oauth_state, under the lock of the row.                          *)
ConsumeState(k, s) ==
    /\ callback[k].step = "new"
    /\ Consumable(s)
    /\ oauth' = [oauth EXCEPT ![s] = "used"]
    /\ callback' = [callback EXCEPT ![k] =
           [step |-> "exchange", state |-> s, id |-> None]]
    /\ UNCHANGED <<conn, sub>>

(* Denied, expired or consumed; or the provider refuses the code.           *)
CallbackFails(k) ==
    /\ callback[k].step \in {"new", "exchange"}
    /\ callback' = [callback EXCEPT ![k].step = "done"]
    /\ UNCHANGED <<oauth, conn, sub>>

(* The id of the connection the account already has, or a new one.          *)
ChooseConnection(k, c) ==
    /\ callback[k].step = "exchange"
    /\ conn # None => c = conn.id
    /\ callback' = [callback EXCEPT ![k].step = "save", ![k].id = c]
    /\ UNCHANGED <<oauth, conn, sub>>

(* Faulty variant of SameConnection: the ids are not compared.              *)
AnyConnection(c) == TRUE

SameConnection(c) == conn = None \/ conn.id = c

(* save_connection: the credential was sealed for the id chosen before.     *)
SaveConnection(k) ==
    LET c == callback[k].id IN
    /\ callback[k].step = "save"
    /\ IF SameConnection(c)
       THEN conn' = [credential |-> c,
                     id |-> IF conn = None THEN c ELSE conn.id,
                     status |-> "active"]
       ELSE UNCHANGED conn
    /\ callback' = [callback EXCEPT ![k].step = "done"]
    /\ UNCHANGED <<oauth, sub>>

-----------------------------------------------------------------------------
(* What workers and people do to a connection that is there.  The updates   *)
(* of workers read the row without a lock and write the columns they set.   *)

(* Faulty variant of Disconnected: the status is forgotten.                 *)
DisconnectedStatusKept(row) == [row EXCEPT !.credential = None]

Disconnected(row) == [row EXCEPT !.credential = None, !.status = "disconnected"]

Disconnect ==
    /\ conn # None
    /\ conn' = Disconnected(conn)
    /\ sub' = [f \in Files |->
           IF sub[f] = None THEN None ELSE [sub[f] EXCEPT !.status = "disconnected"]]
    /\ UNCHANGED <<oauth, callback>>

(* update_encrypted_credential, after the provider refreshed the tokens.    *)
StoreRefreshed ==
    /\ conn' = [conn EXCEPT !.credential = conn.id, !.status = "active"]
    /\ UNCHANGED <<oauth, callback, sub>>

(* mark_connection_failure *)
MarkReauthorize ==
    /\ conn' = [conn EXCEPT !.status = "reauthorization_required"]
    /\ UNCHANGED <<oauth, callback, sub>>

(* upsert_subscription, its insert.  The connection was active when it was  *)
(* read; the row of the connection is not locked.                           *)
Subscribe(f) ==
    /\ sub[f] = None
    /\ sub' = [sub EXCEPT ![f] = [last |-> None, seen |-> 0, status |-> "active"]]
    /\ UNCHANGED <<oauth, callback, conn>>

(* record_subscription_import *)
RecordImport(f, i, version) ==
    /\ sub' = [sub EXCEPT ![f] = [last |-> i, seen |-> version, status |-> "active"]]
    /\ UNCHANGED <<oauth, callback, conn>>

ConnNext ==
    \/ \E s \in OAuthStates : Authorize(s)
    \/ \E k \in Callbacks :
           \/ \E s \in OAuthStates : ConsumeState(k, s)
           \/ CallbackFails(k)
           \/ \E c \in ConnectionIds : ChooseConnection(k, c)
           \/ SaveConnection(k)
    \/ Disconnect

-----------------------------------------------------------------------------
(* Properties *)

(* What the tables can hold; an active connection has a credential (every   *)
(* write of the credential or of the status in source_connections.rs).      *)
ConnTypeOK ==
    /\ oauth \in [OAuthStates -> {"none", "open", "used"}]
    /\ callback \in [Callbacks ->
           [step : {"new", "exchange", "save", "done"},
            state : OAuthStates \cup {None}, id : ConnectionIds \cup {None}]]
    /\ conn # None =>
           /\ conn \in Connections
           /\ conn.status = "active" => conn.credential # None

(* A one-time state authorizes at most one callback, however many requests  *)
(* present it and in whatever order (consume_oauth_state).                  *)
StateUsedOnce ==
    \A j, k \in Callbacks :
        callback[j].state = callback[k].state /\ callback[j].state # None => j = k

(* Two callbacks that both found no connection and drew different ids, or   *)
(* one that meets a row saved since it looked, never leave a credential     *)
(* that the id of its row cannot open (save_connection, CredentialContext). *)
SealedForOwner == conn # None => conn.credential \in {conn.id, None}

(* Once a connection is disconnected, only a person who authorizes it again *)
(* brings a credential back (disconnect_connection: "Removes stored         *)
(* credentials and disconnects every dependent subscription atomically").   *)
(* Faulty in the code: a worker that refreshes tokens writes them back.     *)
DisconnectedStays ==
    [][conn # None /\ conn.status = "disconnected" /\ conn'.credential # None
           => \E k \in Callbacks : callback[k].step = "save" /\ callback'[k].step = "done"
      ]_connVars
=============================================================================
