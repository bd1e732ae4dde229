------------------------------ MODULE MT5Session ------------------------------
(***************************************************************************)
(* One `MT5Adapter` (infrastructure/mt5/adapter.py), the terminal process  *)
(* it is attached to and the caller that reads market data through it.     *)
(*                                                                         *)
(* The terminal is a separate, long-lived process: an operator may log it  *)
(* into another account, or close it, between any two calls.  The adapter  *)
(* answers `account_info` from a snapshot it re-reads only once the        *)
(* snapshot is TTL old.  Market data is fetched from the account that is   *)
(* logged in at that instant; the label it is stored under comes from the  *)
(* snapshot, one or two calls later.  The module follows what is fetched   *)
(* and what it is labelled with.                                           *)
(***************************************************************************)
EXTENDS Integers, FiniteSets

CONSTANTS
    Account,    \* accounts an operator can log the terminal into
    Demo,       \* those whose trade mode is ACCOUNT_TRADE_MODE_DEMO
    NoAccount,  \* the terminal has no account; in the adapter, None
    DemoOnly,   \* settings.demo_only
    Login,      \* settings.login, NoAccount when it is not configured
    TTL,        \* settings.account_verification_ttl_seconds
    CallBound,  \* longest time between a terminal's answer and its timestamp
    MaxTime,    \* bound on the clock
    MaxSeen,    \* bound on the sightings the operator's logins add up to
    MaxRecords  \* bound on what the caller stores

NoTime == -1
Kind == {"quote", "contract", "dataset"}

ASSUME SessionConstants ==
    /\ Demo \subseteq Account
    /\ NoAccount \notin Account
    /\ DemoOnly \in BOOLEAN
    /\ Login \in Account \cup {NoAccount}
    /\ TTL \in Nat \ {0}
    /\ CallBound \in Nat
    /\ MaxTime \in Nat
    /\ MaxSeen \in Nat
    /\ MaxRecords \in Nat

VARIABLES
    now,         \* the clock, in seconds
    live,        \* the account the terminal is logged into
    seen,        \* history: <<second, account>> pairs that were live
    attached,    \* self._module is not None
    account,     \* self._account
    verifiedAt,  \* self._verified_at
    readAt,      \* history: when `account` was really read
    pc,          \* where the caller stands
    reading,     \* the value in the caller's hands and its labels so far
    records,     \* what the caller has kept
    error        \* the last exception raised

terminalVars == <<now, live, seen>>
adapterVars == <<attached, account, verifiedAt, readAt>>
callerVars == <<pc, reading, records, error>>
vars == <<terminalVars, adapterVars, callerVars>>

-----------------------------------------------------------------------------

Snapshot == Account \cup {NoAccount}
Second == Nat \cup {NoTime}
Error == {"none", "MT5ConnectionError", "SymbolNotFoundError", "DataQualityError",
          "DemoSafetyError"}
Step == {"outside", "opening", "stamping", "ready", "fetched", "stampBroker",
         "named", "stampServer", "complete", "failing"}

\* A value read from the terminal (`from`, `at`) and the two labels it is
\* given: the broker column and the manifest's (or contract's) server.
Reading == [kind : Kind, from : Account, at : Nat,
            broker : Snapshot, brokerAt : Second,
            server : Snapshot, serverAt : Second]

NoReading == [kind |-> "none"]

Init ==
    /\ now = 0
    /\ live \in Snapshot
    /\ seen = {<<0, a>> : a \in {live} \cap Account}
    /\ attached = FALSE
    /\ account = NoAccount
    /\ verifiedAt = NoTime
    /\ readAt = NoTime
    /\ pc = "outside"
    /\ reading = NoReading
    /\ records = {}
    /\ error = "none"

-----------------------------------------------------------------------------
(* The world: the clock and the operator at the terminal.                  *)

Stamping == pc \in {"stamping", "stampBroker", "stampServer"}

\* A terminal call answers and is timestamped within CallBound.
Tick ==
    /\ now < MaxTime
    /\ Stamping => now - readAt < CallBound
    /\ now' = now + 1
    /\ seen' = seen \cup {<<now + 1, a>> : a \in {live} \cap Account}
    /\ UNCHANGED <<live, adapterVars, callerVars>>

\* The operator logs in to another account, or closes the terminal.
Relogin(a) ==
    /\ live # a /\ Cardinality(seen) < MaxSeen
    /\ live' = a
    /\ seen' = seen \cup {<<now, b>> : b \in {a} \cap Account}
    /\ UNCHANGED <<now, adapterVars, callerVars>>

-----------------------------------------------------------------------------
(* MT5Adapter._force_disconnect, _verification_expired, _read_account      *)

ForceDisconnect ==
    /\ attached' = FALSE
    /\ account' = NoAccount
    /\ verifiedAt' = NoTime
    /\ readAt' = NoTime

\* Mutant of VerificationExpired: a snapshot as old as the TTL is still trusted.
ExpiredLate == verifiedAt = NoTime \/ now - verifiedAt > TTL

VerificationExpired == verifiedAt = NoTime \/ now - verifiedAt >= TTL

\* Mutant of MustRead: the snapshot never ages out.
MustReadOnce == account = NoAccount

MustRead == account = NoAccount \/ VerificationExpired

\* Mutant of Refused: the mode is proved at connect and not at a re-read.
RefusedAtConnect == DemoOnly /\ live \notin Demo /\ account = NoAccount

Refused == DemoOnly /\ live \notin Demo

\* Raise out of the `with` block (or out of connect, for next = "outside").
Raise(e, next) ==
    /\ error' = e
    /\ pc' = next
    /\ reading' = NoReading
    /\ UNCHANGED records

\* _read_account: unavailable (the session is kept), refused (the session is
\* dropped before the error is raised), or a snapshot to be stamped next.
AccountUnavailable(next) ==
    /\ ~attached \/ live = NoAccount
    /\ Raise("MT5ConnectionError", next)

\* Mutant of AccountRefused: the error is raised with the session still open.
AccountRefusedOpen(next) ==
    /\ attached /\ live # NoAccount /\ Refused
    /\ Raise("DemoSafetyError", next)
    /\ UNCHANGED adapterVars

AccountRefused(next) ==
    /\ attached /\ live # NoAccount /\ Refused
    /\ ForceDisconnect
    /\ Raise("DemoSafetyError", next)

AccountRead(next) ==
    /\ attached /\ live # NoAccount /\ ~Refused
    /\ account' = live
    /\ readAt' = now
    /\ pc' = next
    /\ UNCHANGED <<attached, verifiedAt, reading, records, error>>

-----------------------------------------------------------------------------
(* MT5Adapter.connect                                                      *)

\* The configured path is missing: raised before the session is touched.
ConnectNoTerminal ==
    /\ pc \in {"outside", "ready"}
    /\ error' = "MT5ConnectionError"
    /\ UNCHANGED <<terminalVars, adapterVars, pc, reading, records>>

\* The previous session is dropped, then module.initialize fails.
ConnectFails ==
    /\ pc \in {"outside", "ready"}
    /\ ForceDisconnect
    /\ Raise("MT5ConnectionError", "outside")
    /\ UNCHANGED terminalVars

\* module.initialize succeeds; with a login configured it logs in to it.
Initialize ==
    /\ pc \in {"outside", "ready"}
    /\ attached' = TRUE
    /\ account' = NoAccount
    /\ verifiedAt' = NoTime
    /\ readAt' = NoTime
    /\ live' = IF Login = NoAccount THEN live ELSE Login
    /\ seen' = seen \cup {<<now, a>> : a \in {live'} \cap Account}
    /\ pc' = "opening"
    /\ error' = "none"
    /\ UNCHANGED <<now, reading, records>>

\* The demo check of the new session; any failure drops it again.
OpenAccount ==
    /\ pc = "opening"
    /\ \/ AccountUnavailable("outside") /\ ForceDisconnect
       \/ AccountRefused("outside")
       \/ AccountRead("stamping")
    /\ UNCHANGED terminalVars

StampOpened ==
    /\ pc = "stamping"
    /\ verifiedAt' = now
    /\ pc' = "ready"
    /\ UNCHANGED <<terminalVars, attached, account, readAt, reading, records, error>>

\* __exit__, on either path.
Exit ==
    /\ pc \in {"ready", "failing"}
    /\ ForceDisconnect
    /\ pc' = "outside"
    /\ UNCHANGED <<terminalVars, reading, records, error>>

-----------------------------------------------------------------------------
(* Reading data: the value first, its labels afterwards.                   *)

\* The terminal answers with what the live account sees.
Fetch(k) ==
    /\ pc = "ready" /\ attached /\ live # NoAccount
    /\ Cardinality(records) < MaxRecords
    /\ reading' = [kind |-> k, from |-> live, at |-> now,
                   broker |-> NoAccount, brokerAt |-> NoTime,
                   server |-> NoAccount, serverAt |-> NoTime]
    /\ pc' = "fetched"
    /\ UNCHANGED <<terminalVars, adapterVars, records, error>>

\* None from the terminal: closed, no such symbol, or an empty window.
FetchFails(k) ==
    /\ pc = "ready"
    /\ Raise(IF k = "dataset" THEN "MT5ConnectionError" ELSE "SymbolNotFoundError", "failing")
    /\ UNCHANGED <<terminalVars, adapterVars>>

\* account_info: the cached snapshot, or a fresh one after the next step.
NameBroker ==
    /\ pc = "fetched"
    /\ \/ /\ ~MustRead
          /\ reading' = [reading EXCEPT !.broker = account, !.brokerAt = now]
          /\ pc' = "named"
          /\ UNCHANGED <<adapterVars, records, error>>
       \/ /\ MustRead
          /\ \/ AccountUnavailable("failing") /\ UNCHANGED adapterVars
             \/ AccountRefused("failing")
             \/ AccountRead("stampBroker")
    /\ UNCHANGED terminalVars

StampBroker ==
    /\ pc = "stampBroker"
    /\ verifiedAt' = now
    /\ reading' = [reading EXCEPT !.broker = account, !.brokerAt = now]
    /\ pc' = "named"
    /\ UNCHANGED <<terminalVars, attached, account, readAt, records, error>>

\* The second account_info, for a manifest or a contract specification.
NameServer ==
    /\ pc = "named" /\ reading.kind # "quote"
    /\ \/ /\ ~MustRead
          /\ reading' = [reading EXCEPT !.server = account, !.serverAt = now]
          /\ pc' = "complete"
          /\ UNCHANGED <<adapterVars, records, error>>
       \/ /\ MustRead
          /\ \/ AccountUnavailable("failing") /\ UNCHANGED adapterVars
             \/ AccountRefused("failing")
             \/ AccountRead("stampServer")
    /\ UNCHANGED terminalVars

StampServer ==
    /\ pc = "stampServer"
    /\ verifiedAt' = now
    /\ reading' = [reading EXCEPT !.server = account, !.serverAt = now]
    /\ pc' = "complete"
    /\ UNCHANGED <<terminalVars, attached, account, readAt, records, error>>

\* The validator refuses the frame before a manifest is made for it.
QualityFails ==
    /\ pc = "named" /\ reading.kind = "dataset"
    /\ Raise("DataQualityError", "failing")
    /\ UNCHANGED <<terminalVars, adapterVars>>

\* A quote is labelled once: one snapshot serves as broker and server.
KeepQuote ==
    /\ pc = "named" /\ reading.kind = "quote"
    /\ records' = records \cup
         {[reading EXCEPT !.server = reading.broker, !.serverAt = reading.brokerAt]}
    /\ reading' = NoReading
    /\ pc' = "ready"
    /\ UNCHANGED <<terminalVars, adapterVars, error>>

\* Mutant of Keep: the caller stores its variable after having reset it.
KeepReset ==
    /\ pc = "complete"
    /\ reading' = NoReading
    /\ records' = records \cup {reading'}
    /\ pc' = "ready"
    /\ UNCHANGED <<terminalVars, adapterVars, error>>

Keep ==
    /\ pc = "complete"
    /\ records' = records \cup {reading}
    /\ reading' = NoReading
    /\ pc' = "ready"
    /\ UNCHANGED <<terminalVars, adapterVars, error>>

-----------------------------------------------------------------------------

Next ==
    \/ Tick
    \/ \E a \in Snapshot : Relogin(a)
    \/ ConnectNoTerminal
    \/ ConnectFails
    \/ Initialize
    \/ OpenAccount
    \/ StampOpened
    \/ Exit
    \/ \E k \in Kind : Fetch(k)
    \/ \E k \in Kind : FetchFails(k)
    \/ NameBroker
    \/ StampBroker
    \/ NameServer
    \/ StampServer
    \/ QualityFails
    \/ KeepQuote
    \/ Keep

Spec == Init /\ [][Next]_vars

-----------------------------------------------------------------------------
(* Properties                                                              *)

\* The values each variable can hold.
TypeOK ==
    /\ now \in Nat
    /\ live \in Snapshot
    /\ seen \subseteq Nat \X Account
    /\ attached \in BOOLEAN
    /\ account \in Snapshot
    /\ verifiedAt \in Second
    /\ readAt \in Second
    /\ pc \in Step
    /\ reading \in Reading \cup {NoReading}
    /\ records \subseteq Reading
    /\ error \in Error

\* The sightings S have `a` as the live account less than `age` before `t`.
LiveWithin(S, a, t, age) ==
    \E p \in S : p[2] = a /\ p[1] <= t /\ t - p[1] < age

\* With demo_only set, nothing is ever kept under the name of an account that
\* was not proved to be a demo account (README.md:158).
OnlyDemoLabels ==
    DemoOnly => \A r \in records : r.broker \in Demo /\ r.server \in Demo

\* A label may be stale, but by less than the TTL plus one terminal call: each
\* account a record is stored under really was live that recently when the
\* label was taken (`account_info`, adapter.py:143-155).
LabelsAreRecent ==
    \A r \in records :
        /\ LiveWithin(seen, r.broker, r.brokerAt, TTL + CallBound)
        /\ LiveWithin(seen, r.server, r.serverAt, TTL + CallBound)

\* No account but its source was live from one TTL (and one call) before the
\* record's value was fetched until its last label was taken.
OnlySourceWasLive(r) ==
    \A p \in seen : p[1] > r.at - (TTL + CallBound) /\ p[1] <= r.serverAt => p[2] = r.from

\* Data is attributed to the account it came from unless the operator switched
\* accounts while its snapshot could still be trusted, or during the labelling.
AttributedToItsSource ==
    \A r \in records : OnlySourceWasLive(r) => r.broker = r.from /\ r.server = r.from

\* After a refusal the session is gone: no value the caller still holds, and
\* none it will fetch, can come from the refused terminal without a new connect.
RefusalEndsTheSession ==
    /\ error = "DemoSafetyError" => ~attached /\ account = NoAccount
    /\ reading # NoReading => attached

\* README.md:160 says every dataset manifest records the mode "as it was at
\* the time it was written": when a dataset is kept, the live account's mode is
\* the one its manifest certifies.
ManifestModeIsCurrent ==
    [][\A r \in records' \ records :
          r.kind = "dataset" => (live \in Demo <=> r.server \in Demo)]_vars

=============================================================================
