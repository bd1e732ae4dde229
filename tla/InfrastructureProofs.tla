------------------------ MODULE InfrastructureProofs ------------------------
(***************************************************************************)
(* Proofs about the two ends of the infrastructure, the terminal that is   *)
(* read and the store that is written.                                     *)
(*                                                                         *)
(* MT5Session: whatever the operator does at the terminal, every label is  *)
(* a demo account that was live less than one TTL and one call before, for *)
(* every TTL, every call bound and any set of accounts.                    *)
(*                                                                         *)
(* DatasetStore: with a fresh id for every write and no interrupt inside   *)
(* the handler's reach, a reader sees each dataset appear whole and in one *)
(* step, whatever operations fail and whichever writers are killed.        *)
(***************************************************************************)
EXTENDS MT5Session, DatasetStore, TLAPS

-----------------------------------------------------------------------------
(* The session                                                             *)

Holding == {"fetched", "stampBroker", "named", "stampServer", "complete"}

\* The account that is live is among the sightings of this second.
LiveIsSeen == live # NoAccount => <<now, live>> \in seen

\* A snapshot in the cache was read from the attached terminal, and has been
\* stamped within one call or is about to be.
CacheIsHonest ==
    /\ account # NoAccount =>
         /\ attached
         /\ readAt \in Nat /\ readAt <= now
         /\ <<readAt, account>> \in seen
         /\ DemoOnly => account \in Demo
    /\ Stamping => account # NoAccount /\ now - readAt <= CallBound
    /\ ~Stamping /\ verifiedAt # NoTime =>
         /\ readAt \in Nat
         /\ verifiedAt <= now /\ verifiedAt - readAt <= CallBound

\* By the clock n and the sightings S: a label `a` taken at `t` for a value
\* read no later than `from`.
HonestLabel(n, S, a, t, from) ==
    /\ t \in Nat /\ from <= t /\ t <= n
    /\ LiveWithin(S, a, t, TTL + CallBound)
    /\ DemoOnly => a \in Demo

\* The caller holds a value exactly while it is labelling it, and each label
\* it has taken is honest.
ReadingIsHonest ==
    /\ pc \in Holding => reading \in Reading /\ reading.at <= now
    /\ pc \notin Holding => reading = NoReading
    /\ pc \in {"named", "stampServer", "complete"} =>
         HonestLabel(now, seen, reading.broker, reading.brokerAt, reading.at)
    /\ pc = "complete" => HonestLabel(now, seen, reading.server, reading.serverAt, reading.brokerAt)

RecordsAreHonest ==
    \A r \in records :
        /\ HonestLabel(now, seen, r.broker, r.brokerAt, r.at)
        /\ HonestLabel(now, seen, r.server, r.serverAt, r.brokerAt)

SessionIsTracked ==
    /\ pc \notin {"outside", "failing"} => attached
    /\ error = "DemoSafetyError" => ~attached /\ pc \in {"outside", "failing"}

IInv ==
    /\ TypeOK
    /\ LiveIsSeen
    /\ CacheIsHonest
    /\ ReadingIsHonest
    /\ RecordsAreHonest
    /\ SessionIsTracked

-----------------------------------------------------------------------------

\* A label stays honest as time passes and further sightings are added.
LEMMA LabelStaysHonest ==
    ASSUME NEW n \in Nat, NEW m \in Nat, n <= m, NEW S, NEW T, S \subseteq T,
           NEW a, NEW t, NEW from, HonestLabel(n, S, a, t, from)
    PROVE  HonestLabel(m, T, a, t, from)
  BY DEF HonestLabel, LiveWithin

\* The adapter's cached snapshot is an honest label for a value read already.
LEMMA CachedLabelIsHonest ==
    ASSUME IInv, ~MustRead, ~Stamping, NEW from \in Nat, from <= now
    PROVE  HonestLabel(now, seen, account, now, from)
<1>1. /\ now \in Nat /\ account # NoAccount /\ verifiedAt \in Nat
      /\ readAt \in Nat /\ readAt <= now /\ <<readAt, account>> \in seen
      /\ now - verifiedAt < TTL /\ verifiedAt - readAt <= CallBound
  BY SessionConstants DEF IInv, TypeOK, CacheIsHonest, MustRead, VerificationExpired, Second, NoTime
<1>2. now - readAt < TTL + CallBound
  BY <1>1, SessionConstants
<1>3. LiveWithin(seen, account, now, TTL + CallBound)
  <2>1. <<readAt, account>>[2] = account /\ <<readAt, account>>[1] = readAt
    OBVIOUS
  <2>2. QED
    BY <1>1, <1>2, <2>1 DEF LiveWithin
<1>4. DemoOnly => account \in Demo
  BY <1>1 DEF IInv, CacheIsHonest
<1>5. QED
  BY <1>1, <1>3, <1>4 DEF HonestLabel

\* So is a snapshot that has just been read and is now being stamped.
LEMMA StampedLabelIsHonest ==
    ASSUME IInv, Stamping, NEW from \in Nat, from <= now
    PROVE  HonestLabel(now, seen, account, now, from)
<1>1. /\ now \in Nat /\ account # NoAccount
      /\ readAt \in Nat /\ readAt <= now /\ <<readAt, account>> \in seen
      /\ now - readAt <= CallBound
  BY DEF IInv, TypeOK, CacheIsHonest
<1>2. now - readAt < TTL + CallBound
  BY <1>1, SessionConstants
<1>3. LiveWithin(seen, account, now, TTL + CallBound)
  <2>1. <<readAt, account>>[2] = account /\ <<readAt, account>>[1] = readAt
    OBVIOUS
  <2>2. QED
    BY <1>1, <1>2, <2>1 DEF LiveWithin
<1>4. DemoOnly => account \in Demo
  BY <1>1 DEF IInv, CacheIsHonest
<1>5. QED
  BY <1>1, <1>3, <1>4 DEF HonestLabel

\* An adapter that has not connected holds no snapshot to be wrong about.
LEMMA InitIInv == Init => IInv
<1> SUFFICES ASSUME Init PROVE IInv
  OBVIOUS
<1>1. TypeOK
  <2>1. seen \subseteq Nat \X Account
    BY DEF Init
  <2>2. live \in Snapshot /\ account \in Snapshot
    BY DEF Init, Snapshot
  <2>3. QED
    BY <2>1, <2>2 DEF Init, TypeOK, Second, Step, Error, NoTime
<1>2. LiveIsSeen /\ CacheIsHonest
  BY SessionConstants DEF Init, Snapshot, LiveIsSeen, CacheIsHonest, Stamping
<1>3. ReadingIsHonest /\ RecordsAreHonest /\ SessionIsTracked
  BY DEF Init, ReadingIsHonest, RecordsAreHonest, SessionIsTracked, Holding
<1>4. QED
  BY <1>1, <1>2, <1>3 DEF IInv

\* The session and the caller's value are untouched: what was honest stays so.
LEMMA HonestyKept ==
    ASSUME IInv, TypeOK', LiveIsSeen', now <= now', seen \subseteq seen',
           UNCHANGED <<adapterVars, callerVars>>,
           Stamping => now' - readAt <= CallBound
    PROVE  IInv'
<1>1. now \in Nat /\ now' \in Nat
  BY DEF IInv, TypeOK
<1>2. CacheIsHonest'
  <2>1. /\ attached' = attached /\ account' = account /\ readAt' = readAt
        /\ verifiedAt' = verifiedAt /\ pc' = pc /\ (Stamping' <=> Stamping)
    BY DEF adapterVars, callerVars, Stamping
  <2>2. CacheIsHonest
    BY DEF IInv
  <2>3. account # NoAccount => readAt <= now' /\ <<readAt, account>> \in seen'
    BY <1>1, <2>2 DEF CacheIsHonest
  <2>4. ~Stamping /\ verifiedAt # NoTime => verifiedAt <= now'
    BY <1>1, <2>2 DEF CacheIsHonest, IInv, TypeOK, Second, NoTime
  <2>5. QED
    BY <2>1, <2>2, <2>3, <2>4 DEF CacheIsHonest
<1>3. ReadingIsHonest'
  <2>1. pc' = pc /\ reading' = reading
    BY DEF callerVars
  <2>2. pc \in Holding => reading \in Reading /\ reading.at <= now'
    BY <1>1 DEF IInv, ReadingIsHonest, Reading
  <2>3. pc \in {"named", "stampServer", "complete"} =>
          HonestLabel(now', seen', reading.broker, reading.brokerAt, reading.at)
    BY <1>1, LabelStaysHonest DEF IInv, ReadingIsHonest
  <2>4. pc = "complete" =>
          HonestLabel(now', seen', reading.server, reading.serverAt, reading.brokerAt)
    BY <1>1, LabelStaysHonest DEF IInv, ReadingIsHonest
  <2>5. QED
    BY <2>1, <2>2, <2>3, <2>4 DEF IInv, ReadingIsHonest
<1>4. RecordsAreHonest'
  BY <1>1, LabelStaysHonest DEF IInv, RecordsAreHonest, callerVars
<1>5. SessionIsTracked'
  BY DEF IInv, SessionIsTracked, adapterVars, callerVars
<1>6. QED
  BY <1>2, <1>3, <1>4, <1>5 DEF IInv

-----------------------------------------------------------------------------
(* One step of the specification.                                          *)

\* Every step keeps the type invariant.
LEMMA TypeStep ==
    ASSUME IInv, [Next]_vars PROVE TypeOK'
<1> USE SessionConstants DEF TypeOK, Snapshot, Second, Step, Error, NoTime
<1>a. TypeOK
  BY DEF IInv
<1>b. pc \in Holding => reading \in Reading
  BY DEF IInv, ReadingIsHonest
<1>c. ASSUME NEW a \in Snapshot, NEW t \in Second, pc \in Holding
      PROVE  /\ [reading EXCEPT !.broker = a, !.brokerAt = t] \in Reading
             /\ [reading EXCEPT !.server = a, !.serverAt = t] \in Reading
  BY <1>b, <1>c DEF Reading
<1>1. CASE Tick
  BY <1>a, <1>1 DEF Tick, adapterVars, callerVars
<1>2. ASSUME NEW a \in Snapshot, Relogin(a) PROVE TypeOK'
  BY <1>a, <1>2 DEF Relogin, adapterVars, callerVars
<1>3. CASE ConnectNoTerminal
  BY <1>a, <1>3 DEF ConnectNoTerminal, adapterVars, terminalVars
<1>4. CASE ConnectFails
  BY <1>a, <1>4 DEF ConnectFails, ForceDisconnect, Raise, terminalVars
<1>5. CASE Initialize
  <2>1. live' \in Account \cup {NoAccount}
    BY <1>a, <1>5 DEF Initialize
  <2>2. seen' \subseteq Nat \X Account
    BY <1>a, <1>5 DEF Initialize
  <2>3. QED
    BY <1>a, <1>5, <2>1, <2>2 DEF Initialize
<1>6. CASE OpenAccount
  BY <1>a, <1>6 DEF OpenAccount, AccountUnavailable, AccountRefused, AccountRead, ForceDisconnect,
              Raise, terminalVars
<1>7. CASE StampOpened
  BY <1>a, <1>7 DEF StampOpened, terminalVars
<1>8. CASE Exit
  BY <1>a, <1>8 DEF Exit, ForceDisconnect, terminalVars
<1>9. ASSUME NEW k \in Kind, Fetch(k) PROVE TypeOK'
  <2>1. reading' \in Reading
    BY <1>a, <1>9 DEF Fetch, Reading
  <2>2. QED
    BY <1>a, <1>9, <2>1 DEF Fetch, terminalVars, adapterVars
<1>10. ASSUME NEW k \in Kind, FetchFails(k) PROVE TypeOK'
  BY <1>a, <1>10 DEF FetchFails, Raise, terminalVars, adapterVars
<1>11. CASE NameBroker
  <2>1. CASE MustRead
    BY <1>a, <1>11, <2>1 DEF NameBroker, AccountUnavailable, AccountRefused, AccountRead,
                       ForceDisconnect, Raise, terminalVars, adapterVars
  <2>2. CASE ~MustRead
    BY <1>a, <1>11, <2>2, <1>c DEF NameBroker, terminalVars, adapterVars, Holding
  <2>3. QED
    BY <2>1, <2>2
<1>12. CASE StampBroker
  BY <1>a, <1>12, <1>c DEF StampBroker, terminalVars, Holding
<1>13. CASE NameServer
  <2>1. CASE MustRead
    BY <1>a, <1>13, <2>1 DEF NameServer, AccountUnavailable, AccountRefused, AccountRead,
                       ForceDisconnect, Raise, terminalVars, adapterVars
  <2>2. CASE ~MustRead
    BY <1>a, <1>13, <2>2, <1>c DEF NameServer, terminalVars, adapterVars, Holding
  <2>3. QED
    BY <2>1, <2>2
<1>14. CASE StampServer
  BY <1>a, <1>14, <1>c DEF StampServer, terminalVars, Holding
<1>15. CASE QualityFails
  BY <1>a, <1>15 DEF QualityFails, Raise, terminalVars, adapterVars
<1>16. CASE KeepQuote
  <2>1. [reading EXCEPT !.server = reading.broker, !.serverAt = reading.brokerAt] \in Reading
    BY <1>16, <1>b DEF KeepQuote, Holding, Reading
  <2>2. QED
    BY <1>a, <1>16, <2>1 DEF KeepQuote, terminalVars, adapterVars
<1>17. CASE Keep
  BY <1>a, <1>17, <1>b DEF Keep, terminalVars, adapterVars, Holding
<1>18. CASE UNCHANGED vars
  BY <1>a, <1>18 DEF vars, terminalVars, adapterVars, callerVars
<1>19. QED
  BY <1>1, <1>2, <1>3, <1>4, <1>5, <1>6, <1>7, <1>8, <1>9, <1>10, <1>11, <1>12, <1>13,
     <1>14, <1>15, <1>16, <1>17, <1>18 DEF Next


\* What has been kept stays honest while nothing is added to it.
LEMMA RecordsKept ==
    ASSUME IInv, TypeOK', now <= now', seen \subseteq seen', records' = records
    PROVE  RecordsAreHonest'
  BY LabelStaysHonest DEF IInv, TypeOK, RecordsAreHonest

\* A step that drops the session and leaves the `with` block.
LEMMA DroppedSession ==
    ASSUME IInv, TypeOK', ForceDisconnect, UNCHANGED <<terminalVars, records>>,
           pc' \in {"outside", "failing"}, reading' = NoReading
    PROVE  IInv'
<1>1. now \in Nat /\ now <= now' /\ seen \subseteq seen'
  BY DEF IInv, TypeOK, terminalVars
<1>2. RecordsAreHonest'
  BY <1>1, RecordsKept
<1>3. LiveIsSeen' /\ CacheIsHonest'
  BY DEF IInv, LiveIsSeen, CacheIsHonest, ForceDisconnect, Stamping, terminalVars
<1>4. ReadingIsHonest' /\ SessionIsTracked'
  BY DEF ReadingIsHonest, SessionIsTracked, ForceDisconnect, Holding
<1>5. QED
  BY <1>2, <1>3, <1>4 DEF IInv

\* An exception that leaves the session as it is.
LEMMA RaisedWithSession ==
    ASSUME IInv, TypeOK', UNCHANGED <<terminalVars, adapterVars, records>>,
           pc' = "failing", reading' = NoReading, error' # "DemoSafetyError",
           ~Stamping
    PROVE  IInv'
<1>1. now \in Nat /\ now <= now' /\ seen \subseteq seen'
  BY DEF IInv, TypeOK, terminalVars
<1>2. RecordsAreHonest'
  BY <1>1, RecordsKept
<1>3. LiveIsSeen' /\ CacheIsHonest'
  BY DEF IInv, LiveIsSeen, CacheIsHonest, adapterVars, terminalVars, Stamping
<1>4. ReadingIsHonest' /\ SessionIsTracked'
  BY DEF ReadingIsHonest, SessionIsTracked, Holding
<1>5. QED
  BY <1>2, <1>3, <1>4 DEF IInv

\* The account is read again; the caller goes on to stamp the snapshot.
LEMMA ReadAgain ==
    ASSUME IInv, TypeOK', NEW next, AccountRead(next), UNCHANGED terminalVars,
           \/ pc = "opening" /\ next = "stamping"
           \/ pc = "fetched" /\ next = "stampBroker"
           \/ pc = "named" /\ next = "stampServer"
    PROVE  IInv'
<1>1. now \in Nat /\ now' = now /\ seen' = seen /\ live' = live
  BY DEF IInv, TypeOK, terminalVars
<1>2. RecordsAreHonest'
  BY <1>1, RecordsKept DEF AccountRead
<1>3. LiveIsSeen' /\ CacheIsHonest'
  <2>1. /\ attached' = attached /\ attached /\ account' = live /\ readAt' = now
        /\ live # NoAccount /\ (DemoOnly => live \in Demo) /\ verifiedAt' = verifiedAt
        /\ pc' = next
    BY DEF AccountRead, Refused
  <2>2. <<now, live>> \in seen
    BY <2>1 DEF IInv, LiveIsSeen
  <2>3. Stamping'
    BY <2>1 DEF Stamping
  <2>4. QED
    BY <1>1, <2>1, <2>2, <2>3, SessionConstants DEF LiveIsSeen, CacheIsHonest
<1>4. ReadingIsHonest' /\ SessionIsTracked'
  BY <1>1 DEF IInv, ReadingIsHonest, SessionIsTracked, AccountRead, Holding
<1>5. QED
  BY <1>2, <1>3, <1>4 DEF IInv


\* A label is taken (a first or a second one) from a snapshot that is honest;
\* `stamped` tells whether the snapshot is being stamped with it.
LEMMA LabelTaken ==
    ASSUME IInv, TypeOK', UNCHANGED <<terminalVars, attached, account, readAt, records, error>>,
           HonestLabel(now, seen, account, now, reading.at),
           pc \in {"named", "stampServer"} =>
               HonestLabel(now, seen, account, now, reading.brokerAt),
           \/ ~Stamping /\ verifiedAt' = verifiedAt
           \/ Stamping /\ verifiedAt' = now,
           \/ /\ pc \in {"fetched", "stampBroker"} /\ pc' = "named"
              /\ reading' = [reading EXCEPT !.broker = account, !.brokerAt = now]
           \/ /\ pc \in {"named", "stampServer"} /\ pc' = "complete"
              /\ reading' = [reading EXCEPT !.server = account, !.serverAt = now]
    PROVE  IInv'
<1>1. now \in Nat /\ now' = now /\ seen' = seen /\ live' = live
  BY DEF IInv, TypeOK, terminalVars
<1>2. RecordsAreHonest'
  BY <1>1, RecordsKept
<1>3. LiveIsSeen' /\ CacheIsHonest'
  <2>1. ~Stamping'
    BY DEF Stamping
  <2>2. verifiedAt' # NoTime =>
          readAt \in Nat /\ verifiedAt' <= now /\ verifiedAt' - readAt <= CallBound
    BY <1>1 DEF IInv, CacheIsHonest
  <2>3. QED
    BY <1>1, <2>1, <2>2 DEF IInv, LiveIsSeen, CacheIsHonest
<1>4. ReadingIsHonest'
  <2>1. reading \in Reading /\ reading.at <= now
    BY DEF IInv, ReadingIsHonest, Holding
  <2>2. reading' \in Reading
    BY <1>1, <2>1 DEF IInv, TypeOK, Reading, Snapshot, Second
  <2>3. CASE pc' = "named"
    <3>1. reading'.broker = account /\ reading'.brokerAt = now /\ reading'.at = reading.at
      BY <2>1, <2>3 DEF Reading
    <3>2. QED
      BY <1>1, <2>1, <2>2, <2>3, <3>1 DEF ReadingIsHonest, Holding
  <2>4. CASE pc' = "complete"
    <3>1. /\ reading'.server = account /\ reading'.serverAt = now /\ reading'.at = reading.at
          /\ reading'.broker = reading.broker /\ reading'.brokerAt = reading.brokerAt
      BY <2>1, <2>4 DEF Reading
    <3>2. HonestLabel(now, seen, reading.broker, reading.brokerAt, reading.at)
      BY <2>4 DEF IInv, ReadingIsHonest
    <3>3. HonestLabel(now, seen, account, now, reading.brokerAt)
      BY <2>4
    <3>4. QED
      BY <1>1, <2>1, <2>2, <2>4, <3>1, <3>2, <3>3 DEF ReadingIsHonest, Holding
  <2>5. QED
    BY <2>3, <2>4
<1>5. SessionIsTracked'
  BY DEF IInv, SessionIsTracked
<1>6. QED
  BY <1>2, <1>3, <1>4, <1>5 DEF IInv

\* A labelled reading is kept.
LEMMA ReadingKept ==
    ASSUME IInv, TypeOK', UNCHANGED <<terminalVars, adapterVars, error>>,
           pc \in {"named", "complete"}, pc' = "ready", reading' = NoReading,
           NEW r, records' = records \cup {r},
           HonestLabel(now, seen, r.broker, r.brokerAt, r.at),
           HonestLabel(now, seen, r.server, r.serverAt, r.brokerAt)
    PROVE  IInv'
<1>1. now \in Nat /\ now' = now /\ seen' = seen /\ live' = live
  BY DEF IInv, TypeOK, terminalVars
<1>2. RecordsAreHonest'
  BY <1>1 DEF IInv, RecordsAreHonest
<1>3. LiveIsSeen' /\ CacheIsHonest'
  BY <1>1 DEF IInv, LiveIsSeen, CacheIsHonest, adapterVars, Stamping
<1>4. ReadingIsHonest' /\ SessionIsTracked'
  BY DEF IInv, ReadingIsHonest, SessionIsTracked, Holding, adapterVars
<1>5. QED
  BY <1>2, <1>3, <1>4 DEF IInv

\* Every step of the adapter, its caller and the operator keeps the invariant.
LEMMA StepIInv == IInv /\ [Next]_vars => IInv'
<1> SUFFICES ASSUME IInv, [Next]_vars PROVE IInv'
  OBVIOUS
<1>a. TypeOK'
  BY TypeStep
<1>b. TypeOK /\ LiveIsSeen /\ CacheIsHonest /\ ReadingIsHonest /\ RecordsAreHonest
      /\ SessionIsTracked /\ now \in Nat
  BY DEF IInv, TypeOK
<1>1. CASE Tick
  <2>1. now' = now + 1 /\ seen \subseteq seen' /\ live' = live
    BY <1>1 DEF Tick
  <2>2. LiveIsSeen'
    BY <1>1, <1>b, SessionConstants DEF Tick, LiveIsSeen, TypeOK, Snapshot
  <2>3. Stamping => now' - readAt <= CallBound
    BY <1>1, <1>b, <2>1, SessionConstants DEF Tick, CacheIsHonest
  <2>4. QED
    BY <1>1, <1>a, <1>b, <2>1, <2>2, <2>3, HonestyKept DEF Tick
<1>2. ASSUME NEW a \in Snapshot, Relogin(a) PROVE IInv'
  <2>1. LiveIsSeen'
    BY <1>2 DEF Relogin, LiveIsSeen, Snapshot
  <2>2. Stamping => now' - readAt <= CallBound
    BY <1>2, <1>b DEF Relogin, CacheIsHonest
  <2>3. QED
    BY <1>2, <1>a, <1>b, <2>1, <2>2, HonestyKept DEF Relogin
<1>3. CASE ConnectNoTerminal
  <2>1. RecordsAreHonest'
    BY <1>3, <1>a, <1>b, RecordsKept DEF ConnectNoTerminal, terminalVars
  <2>2. LiveIsSeen' /\ CacheIsHonest' /\ ReadingIsHonest' /\ SessionIsTracked'
    BY <1>3, <1>b DEF ConnectNoTerminal, terminalVars, adapterVars, LiveIsSeen, CacheIsHonest,
                      Stamping, ReadingIsHonest, SessionIsTracked, Holding
  <2>3. QED
    BY <1>a, <2>1, <2>2 DEF IInv
<1>4. CASE ConnectFails
  BY <1>4, <1>a, DroppedSession DEF ConnectFails, Raise
<1>5. CASE Initialize
  <2>1. now' = now /\ seen \subseteq seen' /\ reading = NoReading
    BY <1>5, <1>b DEF Initialize, ReadingIsHonest, Holding
  <2>2. RecordsAreHonest'
    BY <1>5, <1>a, <1>b, <2>1, RecordsKept DEF Initialize
  <2>3. LiveIsSeen'
    BY <1>5, <1>a, SessionConstants DEF Initialize, LiveIsSeen, TypeOK, Snapshot
  <2>4. CacheIsHonest' /\ ReadingIsHonest' /\ SessionIsTracked'
    BY <1>5, <2>1 DEF Initialize, CacheIsHonest, ReadingIsHonest, SessionIsTracked, Stamping, Holding
  <2>5. QED
    BY <1>a, <2>2, <2>3, <2>4 DEF IInv
<1>6. CASE OpenAccount
  <2>1. CASE AccountUnavailable("outside") /\ ForceDisconnect
    BY <1>6, <1>a, <2>1, DroppedSession DEF OpenAccount, AccountUnavailable, Raise
  <2>2. CASE AccountRefused("outside")
    BY <1>6, <1>a, <2>2, DroppedSession DEF OpenAccount, AccountRefused, Raise
  <2>3. CASE AccountRead("stamping")
    BY <1>6, <1>a, <2>3, ReadAgain DEF OpenAccount
  <2>4. QED
    BY <1>6, <2>1, <2>2, <2>3 DEF OpenAccount
<1>7. CASE StampOpened
  <2>1. RecordsAreHonest'
    BY <1>7, <1>a, <1>b, RecordsKept DEF StampOpened, terminalVars
  <2>2. LiveIsSeen' /\ CacheIsHonest'
    BY <1>7, <1>b DEF StampOpened, terminalVars, LiveIsSeen, CacheIsHonest, Stamping
  <2>3. ReadingIsHonest' /\ SessionIsTracked'
    BY <1>7, <1>b DEF StampOpened, ReadingIsHonest, SessionIsTracked, Holding
  <2>4. QED
    BY <1>a, <2>1, <2>2, <2>3 DEF IInv
<1>8. CASE Exit
  <2>1. reading' = NoReading
    BY <1>8, <1>b DEF Exit, ReadingIsHonest, Holding
  <2>2. QED
    BY <1>8, <1>a, <2>1, DroppedSession DEF Exit
<1>9. ASSUME NEW k \in Kind, Fetch(k) PROVE IInv'
  <2>1. reading' \in Reading
    BY <1>9, <1>b, SessionConstants DEF Fetch, Reading, Snapshot, Second, NoTime, TypeOK
  <2>2. RecordsAreHonest'
    BY <1>9, <1>a, <1>b, RecordsKept DEF Fetch, terminalVars
  <2>3. LiveIsSeen' /\ CacheIsHonest' /\ SessionIsTracked'
    BY <1>9, <1>b DEF Fetch, terminalVars, adapterVars, LiveIsSeen, CacheIsHonest, Stamping,
                      SessionIsTracked
  <2>4. ReadingIsHonest'
    <3>1. reading'.at = now /\ now' = now /\ pc' = "fetched"
      BY <1>9 DEF Fetch, terminalVars
    <3>2. QED
      BY <1>b, <2>1, <3>1 DEF ReadingIsHonest, Holding
  <2>5. QED
    BY <1>a, <2>2, <2>3, <2>4 DEF IInv
<1>10. ASSUME NEW k \in Kind, FetchFails(k) PROVE IInv'
  <2>1. error' # "DemoSafetyError" /\ ~Stamping
    BY <1>10 DEF FetchFails, Raise, Stamping
  <2>2. QED
    BY <1>10, <1>a, <2>1, RaisedWithSession DEF FetchFails, Raise
<1>11. CASE NameBroker
  <2>1. pc = "fetched" /\ ~Stamping /\ reading \in Reading /\ reading.at \in Nat
        /\ reading.at <= now
    BY <1>11, <1>b DEF NameBroker, Stamping, ReadingIsHonest, Holding, Reading
  <2>2. CASE ~MustRead
    <3>1. HonestLabel(now, seen, account, now, reading.at)
      BY <2>1, <2>2, CachedLabelIsHonest
    <3>2. QED
      BY <1>11, <1>a, <2>1, <2>2, <3>1, LabelTaken DEF NameBroker, adapterVars
  <2>3. CASE MustRead /\ AccountUnavailable("failing") /\ UNCHANGED adapterVars
    BY <1>11, <1>a, <2>1, <2>3, RaisedWithSession DEF NameBroker, AccountUnavailable, Raise
  <2>4. CASE MustRead /\ AccountRefused("failing")
    BY <1>11, <1>a, <2>4, DroppedSession DEF NameBroker, AccountRefused, Raise
  <2>5. CASE MustRead /\ AccountRead("stampBroker")
    BY <1>11, <1>a, <2>1, <2>5, ReadAgain DEF NameBroker
  <2>6. QED
    BY <1>11, <2>2, <2>3, <2>4, <2>5 DEF NameBroker
<1>12. CASE StampBroker
  <2>1. pc = "stampBroker" /\ Stamping /\ reading.at \in Nat /\ reading.at <= now
    BY <1>12, <1>b DEF StampBroker, Stamping, ReadingIsHonest, Holding, Reading
  <2>2. HonestLabel(now, seen, account, now, reading.at)
    BY <2>1, StampedLabelIsHonest
  <2>3. QED
    BY <1>12, <1>a, <2>1, <2>2, LabelTaken DEF StampBroker
<1>13. CASE NameServer
  <2>1. /\ pc = "named" /\ ~Stamping /\ reading.at \in Nat /\ reading.at <= now
        /\ reading.brokerAt \in Nat /\ reading.brokerAt <= now
    BY <1>13, <1>b DEF NameServer, Stamping, ReadingIsHonest, HonestLabel, Holding, Reading
  <2>2. CASE ~MustRead
    <3>1. /\ HonestLabel(now, seen, account, now, reading.at)
          /\ HonestLabel(now, seen, account, now, reading.brokerAt)
      BY <2>1, <2>2, CachedLabelIsHonest
    <3>2. QED
      BY <1>13, <1>a, <2>1, <2>2, <3>1, LabelTaken DEF NameServer, adapterVars
  <2>3. CASE MustRead /\ AccountUnavailable("failing") /\ UNCHANGED adapterVars
    BY <1>13, <1>a, <2>1, <2>3, RaisedWithSession DEF NameServer, AccountUnavailable, Raise
  <2>4. CASE MustRead /\ AccountRefused("failing")
    BY <1>13, <1>a, <2>4, DroppedSession DEF NameServer, AccountRefused, Raise
  <2>5. CASE MustRead /\ AccountRead("stampServer")
    BY <1>13, <1>a, <2>1, <2>5, ReadAgain DEF NameServer
  <2>6. QED
    BY <1>13, <2>2, <2>3, <2>4, <2>5 DEF NameServer
<1>14. CASE StampServer
  <2>1. /\ pc = "stampServer" /\ Stamping /\ reading.at \in Nat /\ reading.at <= now
        /\ reading.brokerAt \in Nat /\ reading.brokerAt <= now
    BY <1>14, <1>b DEF StampServer, Stamping, ReadingIsHonest, HonestLabel, Holding, Reading
  <2>2. /\ HonestLabel(now, seen, account, now, reading.at)
        /\ HonestLabel(now, seen, account, now, reading.brokerAt)
    BY <2>1, StampedLabelIsHonest
  <2>3. QED
    BY <1>14, <1>a, <2>1, <2>2, LabelTaken DEF StampServer
<1>15. CASE QualityFails
  BY <1>15, <1>a, RaisedWithSession DEF QualityFails, Raise, Stamping
<1>16. CASE KeepQuote
  <2> DEFINE r == [reading EXCEPT !.server = reading.broker, !.serverAt = reading.brokerAt]
  <2>1. /\ pc = "named" /\ reading \in Reading
        /\ HonestLabel(now, seen, reading.broker, reading.brokerAt, reading.at)
    BY <1>16, <1>b DEF KeepQuote, ReadingIsHonest, Holding
  <2>2. /\ r.broker = reading.broker /\ r.brokerAt = reading.brokerAt /\ r.at = reading.at
        /\ r.server = reading.broker /\ r.serverAt = reading.brokerAt
    BY <2>1 DEF Reading
  <2>3. /\ HonestLabel(now, seen, r.broker, r.brokerAt, r.at)
        /\ HonestLabel(now, seen, r.server, r.serverAt, r.brokerAt)
    BY <2>1, <2>2 DEF HonestLabel
  <2>4. records' = records \cup {r}
    BY <1>16 DEF KeepQuote
  <2> HIDE DEF r
  <2>5. QED
    BY <1>16, <1>a, <2>1, <2>3, <2>4, ReadingKept DEF KeepQuote
<1>17. CASE Keep
  <2>1. /\ pc = "complete"
        /\ HonestLabel(now, seen, reading.broker, reading.brokerAt, reading.at)
        /\ HonestLabel(now, seen, reading.server, reading.serverAt, reading.brokerAt)
    BY <1>17, <1>b DEF Keep, ReadingIsHonest
  <2>2. QED
    BY <1>17, <1>a, <2>1, ReadingKept DEF Keep
<1>18. CASE UNCHANGED vars
  <2>1. LiveIsSeen' /\ now' = now /\ seen' = seen
    BY <1>18, <1>b DEF vars, terminalVars, LiveIsSeen
  <2>2. Stamping => now' - readAt <= CallBound
    BY <1>b, <2>1 DEF CacheIsHonest
  <2>3. QED
    BY <1>18, <1>a, <1>b, <2>1, <2>2, HonestyKept DEF vars
<1>19. QED
  BY <1>1, <1>2, <1>3, <1>4, <1>5, <1>6, <1>7, <1>8, <1>9, <1>10, <1>11, <1>12, <1>13,
     <1>14, <1>15, <1>16, <1>17, <1>18 DEF Next

-----------------------------------------------------------------------------

\* The inductive invariant holds in every reachable state: an attached
\* adapter's snapshot is honest and so is every label taken from it.
THEOREM Invariant == Spec => []IInv
<1>1. Init => IInv
  BY InitIInv
<1>2. IInv /\ [Next]_vars => IInv'
  BY StepIInv
<1>3. QED
  BY <1>1, <1>2, PTL DEF Spec

\* The values the adapter, its terminal and its caller can hold.
THEOREM TypeCorrect == Spec => []TypeOK
<1>1. IInv => TypeOK
  BY DEF IInv
<1>2. QED
  BY <1>1, Invariant, PTL

\* Under demo_only nothing is ever kept under an account not proved demo.
THEOREM DemoSafety == Spec => []OnlyDemoLabels
<1>1. IInv => OnlyDemoLabels
  BY DEF IInv, RecordsAreHonest, HonestLabel, OnlyDemoLabels
<1>2. QED
  BY <1>1, Invariant, PTL

\* No label is older than the TTL and one terminal call.
THEOREM BoundedStaleness == Spec => []LabelsAreRecent
<1>1. IInv => LabelsAreRecent
  BY DEF IInv, RecordsAreHonest, HonestLabel, LabelsAreRecent
<1>2. QED
  BY <1>1, Invariant, PTL

\* Data is attributed to its source unless the operator switched accounts
\* within the TTL and a call before it was fetched, or while it was labelled.
THEOREM Attribution == Spec => []AttributedToItsSource
<1>1. IInv => AttributedToItsSource
  <2> SUFFICES ASSUME IInv, NEW r \in records, OnlySourceWasLive(r)
               PROVE  r.broker = r.from /\ r.server = r.from
    BY DEF AttributedToItsSource
  <2>1. /\ r.at \in Nat /\ r.brokerAt \in Nat /\ r.serverAt \in Nat
        /\ r.at <= r.brokerAt /\ r.brokerAt <= r.serverAt
        /\ LiveWithin(seen, r.broker, r.brokerAt, TTL + CallBound)
        /\ LiveWithin(seen, r.server, r.serverAt, TTL + CallBound)
    BY DEF IInv, TypeOK, RecordsAreHonest, HonestLabel, Reading
  <2>2. ASSUME NEW a, NEW t \in {r.brokerAt, r.serverAt},
               LiveWithin(seen, a, t, TTL + CallBound)
        PROVE  a = r.from
    <3>1. PICK p \in seen : p[2] = a /\ p[1] <= t /\ t - p[1] < TTL + CallBound
      BY <2>2 DEF LiveWithin
    <3>2. p[1] \in Nat
      BY <3>1 DEF IInv, TypeOK
    <3>3. p[1] > r.at - (TTL + CallBound) /\ p[1] <= r.serverAt
      BY <2>1, <2>2, <3>1, <3>2, SessionConstants
    <3>4. QED
      BY <3>1, <3>3 DEF OnlySourceWasLive
  <2>3. QED
    BY <2>1, <2>2
<1>2. QED
  BY <1>1, Invariant, PTL

\* A refusal ends the session before anything else can be read through it.
THEOREM RefusalEnds == Spec => []RefusalEndsTheSession
<1>1. IInv => RefusalEndsTheSession
  BY DEF IInv, CacheIsHonest, ReadingIsHonest, SessionIsTracked, RefusalEndsTheSession, Holding
<1>2. QED
  BY <1>1, Invariant, PTL

-----------------------------------------------------------------------------
(* The store                                                               *)

\* uuid4 never repeats an id.
Unrepeated == \A v, w \in Writer : IdOf[v] = IdOf[w] => v = w

\* And no KeyboardInterrupt is delivered.
Fresh == Unrepeated /\ "interrupt" \notin Fault

Moved == {"leave", "returned"}

\* A write that has not moved its data has an empty final path; one that has
\* has both files, its own.  A kill freezes either case.
Owned(w) ==
    /\ data[IdOf[w]] \in {None, w}
    /\ manifest[IdOf[w]] \in {None, w}
    /\ data[IdOf[w]] = w => manifest[IdOf[w]] = w
    /\ op[w] \in {"stage", "encode", "dump", "publish", "move", "withdraw"} => data[IdOf[w]] = None
    /\ op[w] = "move" => manifest[IdOf[w]] = w
    /\ op[w] = "withdraw" => failed[w]
    /\ op[w] \in Moved \/ (op[w] = "cleanup" /\ ~failed[w]) => data[IdOf[w]] = w

StoreIInv ==
    /\ StoreTypeOK
    /\ \A w \in Writer : Owned(w)
    /\ \A i \in Id : (\A w \in Writer : IdOf[w] # i) => data[i] = None

-----------------------------------------------------------------------------

\* No file is there before the first write.
LEMMA InitStoreIInv == StoreInit => StoreIInv
  BY StoreConstants DEF StoreInit, StoreIInv, StoreTypeOK, Owned, Operation, Done, Moved

\* Every step, fault or not, keeps the type invariant.
LEMMA StoreTypeStep == StoreTypeOK /\ [StoreNext]_storeVars => StoreTypeOK'
<1> SUFFICES ASSUME StoreTypeOK, [StoreNext]_storeVars PROVE StoreTypeOK'
  OBVIOUS
<1> USE StoreConstants DEF StoreTypeOK, Operation, Done, At, Go, Handle
<1>1. ASSUME NEW w \in Writer, WriteStep(w) PROVE StoreTypeOK'
  <2>1. CASE Stage(w)
    BY <2>1 DEF Stage
  <2>2. CASE Encode(w)
    BY <2>2 DEF Encode
  <2>3. CASE Dump(w)
    BY <2>3 DEF Dump
  <2>4. CASE Publish(w)
    <3>1. [manifest EXCEPT ![IdOf[w]] = w] \in [Id -> Writer \cup {None}]
      OBVIOUS
    <3>2. manifest' \in [Id -> Writer \cup {None}]
      BY <2>4, <3>1 DEF Publish
    <3>3. QED
      BY <2>4, <3>2 DEF Publish
  <2>5. CASE Move(w)
    <3>1. [data EXCEPT ![IdOf[w]] = w] \in [Id -> Writer \cup {None}]
      OBVIOUS
    <3>2. data' \in [Id -> Writer \cup {None}]
      BY <2>5, <3>1 DEF Move
    <3>3. QED
      BY <2>5, <3>2 DEF Move
  <2>6. CASE Leave(w)
    BY <2>6 DEF Leave
  <2>7. CASE Withdraw(w)
    BY <2>7 DEF Withdraw
  <2>8. CASE Cleanup(w)
    BY <2>8 DEF Cleanup
  <2>9. QED
    BY <1>1, <2>1, <2>2, <2>3, <2>4, <2>5, <2>6, <2>7, <2>8 DEF WriteStep
<1>2. ASSUME NEW w \in Writer, Interrupt(w) PROVE StoreTypeOK'
  BY <1>2 DEF Interrupt
<1>3. ASSUME NEW w \in Writer, Kill(w) PROVE StoreTypeOK'
  BY <1>3 DEF Kill
<1>4. CASE UNCHANGED storeVars
  BY <1>4 DEF storeVars
<1>5. QED
  BY <1>1, <1>2, <1>3, <1>4 DEF StoreNext

\* A writer's step touches its own program counter and its own id only.
LEMMA StepIsLocal ==
    ASSUME StoreTypeOK, NEW w \in Writer, WriteStep(w) \/ Kill(w)
    PROVE  /\ \A v \in Writer \ {w} : op'[v] = op[v] /\ failed'[v] = failed[v]
           /\ \A i \in Id \ {IdOf[w]} : data'[i] = data[i] /\ manifest'[i] = manifest[i]
  BY StoreConstants
  DEF StoreTypeOK, WriteStep, Stage, Encode, Dump, Publish, Move, Leave, Withdraw, Cleanup, Kill,
      At, Go, Handle

\* And keeps what it owns in order.
LEMMA StepKeepsOwned ==
    ASSUME StoreTypeOK, NEW w \in Writer, Owned(w), WriteStep(w) \/ Kill(w)
    PROVE  Owned(w)'
<1> USE StoreConstants DEF StoreTypeOK, Owned, At, Go, Handle, Moved, Operation, Done
<1>0. IdOf[w] \in Id
  OBVIOUS
<1>1. CASE Stage(w)
  BY <1>0, <1>1 DEF Stage
<1>2. CASE Encode(w)
  BY <1>0, <1>2 DEF Encode
<1>3. CASE Dump(w)
  BY <1>0, <1>3 DEF Dump
<1>4. CASE Publish(w)
  BY <1>0, <1>4 DEF Publish
<1>5. CASE Move(w)
  BY <1>0, <1>5 DEF Move
<1>6. CASE Leave(w)
  BY <1>0, <1>6 DEF Leave
<1>7. CASE Withdraw(w)
  BY <1>0, <1>7 DEF Withdraw
<1>8. CASE Cleanup(w)
  BY <1>0, <1>8 DEF Cleanup
<1>9. CASE Kill(w)
  BY <1>0, <1>9 DEF Kill
<1>10. QED
  BY <1>1, <1>2, <1>3, <1>4, <1>5, <1>6, <1>7, <1>8, <1>9 DEF WriteStep

\* With fresh ids every writer keeps its own files in order, step by step.
LEMMA StepStoreIInv == Fresh /\ StoreIInv /\ [StoreNext]_storeVars => StoreIInv'
<1> SUFFICES ASSUME Fresh, StoreIInv, [StoreNext]_storeVars PROVE StoreIInv'
  OBVIOUS
<1>1. StoreTypeOK /\ StoreTypeOK'
  BY StoreTypeStep DEF StoreIInv
<1>2. ASSUME NEW w \in Writer, WriteStep(w) \/ Kill(w) PROVE StoreIInv'
  <2>1. Owned(w)'
    BY <1>1, <1>2, StepKeepsOwned DEF StoreIInv
  <2>2. ASSUME NEW v \in Writer, v # w PROVE Owned(v)'
    <3>1. IdOf[v] \in Id \ {IdOf[w]}
      BY <2>2, StoreConstants DEF Fresh, Unrepeated
    <3>2. op'[v] = op[v] /\ failed'[v] = failed[v] /\ data'[IdOf[v]] = data[IdOf[v]]
          /\ manifest'[IdOf[v]] = manifest[IdOf[v]]
      BY <1>1, <1>2, <2>2, <3>1, StepIsLocal
    <3>3. QED
      BY <3>2 DEF StoreIInv, Owned
  <2>3. ASSUME NEW i \in Id, \A u \in Writer : IdOf[u] # i PROVE data'[i] = None
    BY <1>1, <1>2, <2>3, StepIsLocal DEF StoreIInv
  <2>4. QED
    BY <1>1, <2>1, <2>2, <2>3 DEF StoreIInv
<1>3. ASSUME NEW w \in Writer, Interrupt(w) PROVE StoreIInv'
  BY <1>3 DEF Interrupt, Fresh
<1>4. CASE UNCHANGED storeVars
  BY <1>1, <1>4 DEF storeVars, StoreIInv, Owned
<1>5. QED
  BY <1>2, <1>3, <1>4 DEF StoreNext

\* With fresh ids each writer owns the two files of its id, whatever the
\* others do.
THEOREM StoreInvariant == Fresh => (StoreSpec => []StoreIInv)
<1> SUFFICES ASSUME Fresh PROVE StoreSpec => []StoreIInv
  OBVIOUS
<1>1. StoreInit => StoreIInv
  BY InitStoreIInv
<1>2. StoreIInv /\ [StoreNext]_storeVars => StoreIInv'
  BY StepStoreIInv
<1>3. QED
  BY <1>1, <1>2, PTL DEF StoreSpec

\* The values each variable can hold, whichever faults happen.
THEOREM StoreTypeCorrect == StoreSpec => []StoreTypeOK
<1>1. StoreInit => StoreTypeOK
  BY InitStoreIInv DEF StoreIInv
<1>2. StoreTypeOK /\ [StoreNext]_storeVars => StoreTypeOK'
  BY StoreTypeStep
<1>3. QED
  BY <1>1, <1>2, PTL DEF StoreSpec

\* Data never stands at its final path without a manifest, even when removing
\* a file fails and when writers are killed.
THEOREM DataDescribed == Fresh => (StoreSpec => []DataIsDescribed)
<1> SUFFICES ASSUME Fresh PROVE StoreSpec => []DataIsDescribed
  OBVIOUS
<1>1. StoreIInv => DataIsDescribed
  <2> SUFFICES ASSUME StoreIInv, NEW i \in Id, data[i] # None PROVE manifest[i] # None
    BY DEF DataIsDescribed
  <2>1. PICK w \in Writer : IdOf[w] = i
    BY DEF StoreIInv
  <2>2. QED
    BY <2>1, StoreConstants DEF StoreIInv, Owned
<1>2. QED
  BY <1>1, StoreInvariant, PTL

\* How far a write has come with its two files, whichever faults it meets: until
\* the manifest is published there is neither, until the move no data, and what
\* is missing later was withdrawn by a write that raised.
Placed(w) ==
    LET d == data[IdOf[w]]
        m == manifest[IdOf[w]]
    IN  /\ d \in {None, w} /\ m \in {None, w}
        /\ op[w] \in {"stage", "encode", "dump", "publish"} => ~failed[w] /\ d = None /\ m = None
        /\ op[w] = "move" => ~failed[w] /\ d = None /\ m = w
        /\ op[w] \in {"leave", "returned"} \/ (op[w] = "cleanup" /\ ~failed[w]) => d = w /\ m = w
        /\ op[w] \in {"withdraw", "raised"} => failed[w]
        /\ d = w /\ m = None => failed[w]
        /\ m = w /\ d = None => failed[w] \/ op[w] \in {"move", "killed"}

\* A writer's own step, an interrupt and its end keep it.
LEMMA StepKeepsPlaced ==
    ASSUME StoreTypeOK, NEW w \in Writer, Placed(w), WriteStep(w) \/ Interrupt(w) \/ Kill(w)
    PROVE  Placed(w)'
<1> USE StoreConstants DEF StoreTypeOK, Placed, At, Go, Handle, Operation, Done
<1>0. IdOf[w] \in Id
  OBVIOUS
<1>1. CASE Stage(w)
  BY <1>0, <1>1 DEF Stage
<1>2. CASE Encode(w)
  BY <1>0, <1>2 DEF Encode
<1>3. CASE Dump(w)
  BY <1>0, <1>3 DEF Dump
<1>4. CASE Publish(w)
  BY <1>0, <1>4 DEF Publish
<1>5. CASE Move(w)
  BY <1>0, <1>5 DEF Move
<1>6. CASE Leave(w)
  BY <1>0, <1>6 DEF Leave
<1>7. CASE Withdraw(w)
  BY <1>0, <1>7 DEF Withdraw
<1>8. CASE Cleanup(w)
  BY <1>0, <1>8 DEF Cleanup
<1>9. CASE Interrupt(w)
  BY <1>0, <1>9 DEF Interrupt
<1>10. CASE Kill(w)
  BY <1>0, <1>10 DEF Kill
<1>11. QED
  BY <1>1, <1>2, <1>3, <1>4, <1>5, <1>6, <1>7, <1>8, <1>9, <1>10 DEF WriteStep

\* And leaves the files of the other writers alone.
LEMMA FaultIsLocal ==
    ASSUME StoreTypeOK, NEW w \in Writer, WriteStep(w) \/ Interrupt(w) \/ Kill(w)
    PROVE  /\ \A v \in Writer \ {w} : op'[v] = op[v] /\ failed'[v] = failed[v]
           /\ \A i \in Id \ {IdOf[w]} : data'[i] = data[i] /\ manifest'[i] = manifest[i]
<1>1. CASE WriteStep(w) \/ Kill(w)
  BY <1>1, StepIsLocal
<1>2. CASE Interrupt(w)
  BY <1>2 DEF Interrupt, StoreTypeOK, Go
<1>3. QED
  BY <1>1, <1>2

\* Every writer's files are where it has come with them, whichever faults
\* happen and in whatever order.
THEOREM EachIsPlaced == Unrepeated => (StoreSpec => [](\A w \in Writer : Placed(w)))
<1> SUFFICES ASSUME Unrepeated PROVE StoreSpec => [](\A w \in Writer : Placed(w))
  OBVIOUS
<1> DEFINE AllPlaced == \A w \in Writer : Placed(w)
<1>1. StoreInit => AllPlaced
  BY StoreConstants DEF StoreInit, Placed
<1>2. ASSUME StoreTypeOK, AllPlaced, [StoreNext]_storeVars PROVE AllPlaced'
  <2>1. ASSUME NEW w \in Writer, WriteStep(w) \/ Interrupt(w) \/ Kill(w), NEW v \in Writer
        PROVE  Placed(v)'
    <3>1. CASE v = w
      BY <1>2, <2>1, <3>1, StepKeepsPlaced
    <3>2. CASE v # w
      <4>1. IdOf[v] \in Id \ {IdOf[w]}
        BY <3>2, StoreConstants DEF Unrepeated
      <4>2. /\ op'[v] = op[v] /\ failed'[v] = failed[v]
            /\ data'[IdOf[v]] = data[IdOf[v]] /\ manifest'[IdOf[v]] = manifest[IdOf[v]]
        BY <1>2, <2>1, <3>2, <4>1, FaultIsLocal
      <4>3. QED
        BY <1>2, <4>2 DEF Placed
    <3>3. QED
      BY <3>1, <3>2
  <2>2. CASE UNCHANGED storeVars
    BY <1>2, <2>2 DEF storeVars, Placed
  <2>3. QED
    BY <1>2, <2>1, <2>2 DEF StoreNext
<1>3. QED
  BY <1>1, <1>2, StoreTypeCorrect, PTL DEF StoreSpec

\* A write that returned left its pair; data without its manifest is what a write
\* that raised leaves, and a manifest without its data what awaits the move, was
\* killed, or could not be withdrawn.
THEOREM OutcomeIsTold == Unrepeated => (StoreSpec => []FilesTellTheOutcome)
<1> SUFFICES ASSUME Unrepeated PROVE StoreSpec => []FilesTellTheOutcome
  OBVIOUS
<1>1. (\A w \in Writer : Placed(w)) => FilesTellTheOutcome
  BY DEF Placed, FilesTellTheOutcome, At
<1>2. QED
  BY <1>1, EachIsPlaced, PTL

\* A write that fails leaves no manifest behind, as long as the withdrawal
\* itself works and nobody ends the process.
Clean(w) ==
    /\ op[w] # "killed"
    /\ op[w] \in {"stage", "encode", "dump", "publish", "move", "leave"} => ~failed[w]
    /\ op[w] \in {"stage", "encode", "dump", "publish"} => manifest[IdOf[w]] = None
    /\ op[w] = "raised" \/ (op[w] = "cleanup" /\ failed[w]) =>
          data[IdOf[w]] = None /\ manifest[IdOf[w]] = None

AllClean ==
    /\ \A w \in Writer : Clean(w)
    /\ \A i \in Id : (\A w \in Writer : IdOf[w] # i) => manifest[i] = None

\* A writer's own step keeps its failure clean.
LEMMA StepKeepsClean ==
    ASSUME Fault \subseteq {"io"}, StoreTypeOK, NEW w \in Writer, Owned(w), Clean(w), WriteStep(w)
    PROVE  Clean(w)'
<1> USE StoreConstants DEF StoreTypeOK, Owned, Clean, At, Go, Handle
<1>0. IdOf[w] \in Id /\ "unlink" \notin Fault
  OBVIOUS
<1>1. CASE Stage(w)
  BY <1>0, <1>1 DEF Stage
<1>2. CASE Encode(w)
  BY <1>0, <1>2 DEF Encode
<1>3. CASE Dump(w)
  BY <1>0, <1>3 DEF Dump
<1>4. CASE Publish(w)
  BY <1>0, <1>4 DEF Publish
<1>5. CASE Move(w)
  BY <1>0, <1>5 DEF Move
<1>6. CASE Leave(w)
  BY <1>0, <1>6 DEF Leave
<1>7. CASE Withdraw(w)
  BY <1>0, <1>7 DEF Withdraw
<1>8. CASE Cleanup(w)
  BY <1>0, <1>8 DEF Cleanup
<1>9. QED
  BY <1>1, <1>2, <1>3, <1>4, <1>5, <1>6, <1>7, <1>8 DEF WriteStep

\* As long as file operations fail only by raising where the handler expects
\* it, a dataset nobody is writing is there whole or not at all.
THEOREM WholeAtRest == Fresh /\ Fault \subseteq {"io"} => (StoreSpec => []AtRestThePairIsWhole)
<1> SUFFICES ASSUME Fresh, Fault \subseteq {"io"} PROVE StoreSpec => []AtRestThePairIsWhole
  OBVIOUS
<1>1. StoreInit => AllClean
  BY StoreConstants DEF StoreInit, AllClean, Clean
<1>2. ASSUME StoreIInv, AllClean, [StoreNext]_storeVars PROVE AllClean'
  <2>1. ASSUME NEW w \in Writer, WriteStep(w) PROVE AllClean'
    <3>1. Clean(w)'
      BY <1>2, <2>1, StepKeepsClean DEF StoreIInv, AllClean
    <3>2. ASSUME NEW v \in Writer, v # w PROVE Clean(v)'
      <4>1. IdOf[v] \in Id \ {IdOf[w]}
        BY <3>2, StoreConstants DEF Fresh, Unrepeated
      <4>2. /\ op'[v] = op[v] /\ failed'[v] = failed[v]
            /\ data'[IdOf[v]] = data[IdOf[v]] /\ manifest'[IdOf[v]] = manifest[IdOf[v]]
        BY <1>2, <2>1, <3>2, <4>1, StepIsLocal DEF StoreIInv
      <4>3. QED
        BY <1>2, <4>2 DEF AllClean, Clean
    <3>3. ASSUME NEW i \in Id, \A u \in Writer : IdOf[u] # i PROVE manifest'[i] = None
      BY <1>2, <2>1, <3>3, StepIsLocal DEF StoreIInv, AllClean
    <3>4. QED
      BY <3>1, <3>2, <3>3 DEF AllClean
  <2>2. ASSUME NEW w \in Writer, Interrupt(w) \/ Kill(w) PROVE FALSE
    BY <2>2 DEF Interrupt, Kill
  <2>3. CASE UNCHANGED storeVars
    BY <1>2, <2>3 DEF storeVars, AllClean, Clean
  <2>4. QED
    BY <1>2, <2>1, <2>2, <2>3 DEF StoreNext
<1>3. ASSUME StoreIInv, AllClean PROVE AtRestThePairIsWhole
  <2> SUFFICES ASSUME NEW i \in Id, ~InFlight(i) PROVE data[i] = manifest[i]
    BY DEF AtRestThePairIsWhole
  <2>1. CASE \A w \in Writer : IdOf[w] # i
    BY <1>3, <2>1 DEF StoreIInv, AllClean
  <2>2. ASSUME NEW w \in Writer, IdOf[w] = i PROVE data[i] = manifest[i]
    <3>1. op[w] \in {"returned", "raised"}
      BY <1>3, <2>2 DEF InFlight, StoreIInv, StoreTypeOK, AllClean, Clean, Done
    <3>2. QED
      BY <1>3, <2>2, <3>1 DEF StoreIInv, Owned, AllClean, Clean, Moved
  <2>3. QED
    BY <2>1, <2>2
<1>4. QED
  BY <1>1, <1>2, <1>3, StoreInvariant, PTL DEF StoreSpec

\* The detailed write implements the atomic one: each of its steps leaves
\* every pair as it was or makes one pair appear.
THEOREM StoreRefinement == Fresh => (StoreSpec => ImplementsAtomicDataset)
<1> SUFFICES ASSUME Fresh PROVE StoreSpec => ImplementsAtomicDataset
  OBVIOUS
<1>1. StoreInit => Atomic!Init
  BY DEF StoreInit, Atomic!Init, Whole
<1>2. StoreIInv /\ StoreIInv' /\ [StoreNext]_storeVars => [Atomic!Next]_Whole
  <2> SUFFICES ASSUME StoreIInv, StoreIInv', [StoreNext]_storeVars PROVE [Atomic!Next]_Whole
    OBVIOUS
  <2>1. ASSUME NEW w \in Writer, WriteStep(w) \/ Kill(w) PROVE [Atomic!Next]_Whole
    <3>1. StoreTypeOK /\ StoreTypeOK' /\ Owned(w) /\ Owned(w)' /\ IdOf[w] \in Id
      BY StoreConstants DEF StoreIInv
    <3>2. \A i \in Id \ {IdOf[w]} : Whole'[i] = Whole[i]
      BY <2>1, <3>1, StepIsLocal DEF Whole
    <3>3. \/ data'[IdOf[w]] = data[IdOf[w]]
          \/ data[IdOf[w]] = None /\ data'[IdOf[w]] = w
      BY <2>1, <3>1 DEF WriteStep, Stage, Encode, Dump, Publish, Move, Leave, Withdraw, Cleanup,
                        Kill, Owned, At, StoreTypeOK
    <3>4. CASE data'[IdOf[w]] = data[IdOf[w]]
      <4>1. Whole'[IdOf[w]] = Whole[IdOf[w]]
        BY <3>1, <3>4, StoreConstants DEF Whole, Owned
      <4>2. Whole' = Whole
        BY <3>2, <4>1 DEF Whole
      <4>3. QED
        BY <4>2
    <3>5. CASE data[IdOf[w]] = None /\ data'[IdOf[w]] = w
      <4>1. Whole[IdOf[w]] = None /\ Whole'[IdOf[w]] = w
        BY <3>1, <3>5, StoreConstants DEF Whole, Owned
      <4>2. Whole' = [Whole EXCEPT ![IdOf[w]] = w]
        BY <3>1, <3>2, <4>1 DEF Whole
      <4>3. QED
        BY <3>1, <4>1, <4>2 DEF Atomic!Next, Atomic!Appear
    <3>6. QED
      BY <3>3, <3>4, <3>5
  <2>2. ASSUME NEW w \in Writer, Interrupt(w) PROVE FALSE
    BY <2>2 DEF Interrupt, Fresh
  <2>3. CASE UNCHANGED storeVars
    BY <2>3 DEF storeVars, Whole
  <2>4. QED
    BY <2>1, <2>2, <2>3 DEF StoreNext
<1>3. QED
  BY <1>1, <1>2, StoreInvariant, PTL DEF StoreSpec, ImplementsAtomicDataset, Atomic!Spec
=============================================================================
