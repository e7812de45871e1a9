---------------------------- MODULE TargetsProofs ----------------------------
(***************************************************************************)
(* What holds of the targets: of the rows that configure one and the       *)
(* connector that is shared, of a call of its client, of the mapping of    *)
(* what people hold to its attributes, of an application's client, of an   *)
(* organization's realm, of the accounts and groups that jobs reach        *)
(* request by request, and of the two passes that repair what is there.    *)
(***************************************************************************)
EXTENDS Integers, ConnectorRegistry, HttpCalls, AttributeMappings, SsoApps, Realms, Directories, Drift,
        TargetReconciliation,
        FiniteSetTheorems, SequenceTheorems, WellFoundedInduction, TLAPS

-----------------------------------------------------------------------------
(* The configuration rows.                                                 *)

ConfigRow == [Keys -> Settings \cup {NoSetting}]

(* Whoever has a slot's lock has read its row as it still is, and nobody   *)
(* else has that lock.                                                     *)
RowsInv ==
    /\ given = config
    /\ config \in [Slots -> ConfigRow]
    /\ DOMAIN patching = Patchers
    /\ \A e \in Patchers :
          patching[e].at = "locked" =>
              /\ patching[e].slot \in Slots /\ patching[e].patch \in Patches
              /\ patching[e].read = config[patching[e].slot]
    /\ \A e, f \in Patchers :
          patching[e].at = "locked" /\ patching[f].at = "locked" /\ patching[e].slot = patching[f].slot
              => e = f

LEMMA MergedRows ==
    ASSUME NEW row \in ConfigRow, NEW patch \in Patches
    PROVE  Merged(row, patch) \in ConfigRow
<1>1. PICK keys \in SUBSET Keys : patch \in [keys -> Settings \cup {NoSetting}]
  BY RegistryAssumption
<1> QED BY <1>1 DEF Merged, ConfigRow

LEMMA RowsStart == RegistryInit => RowsInv
BY DEF RegistryInit, RowsInv, ConfigRow, NoEdit

LEMMA RowsStep == RowsInv /\ [RegistryNext]_cvars => RowsInv'
<1> SUFFICES ASSUME RowsInv, [RegistryNext]_cvars PROVE RowsInv'
  OBVIOUS
<1>1. CASE UNCHANGED <<config, patching, given>>
  BY <1>1 DEF RowsInv
<1>2. ASSUME NEW e \in Patchers, BeginEdit(e)
      PROVE  RowsInv'
  <2>1. PICK s \in Slots, patch \in Patches :
          /\ \A f \in Patchers : ~(patching[f].at = "locked" /\ patching[f].slot = s)
          /\ patching' = [patching EXCEPT ![e] =
                [at |-> "locked", slot |-> s, patch |-> patch, read |-> config[s]]]
    BY <1>2 DEF BeginEdit, Lockable, Holders
  <2>2. PICK edit : edit = [at |-> "locked", slot |-> s, patch |-> patch, read |-> config[s]]
    OBVIOUS
  <2>3. edit.slot = s /\ edit.patch = patch /\ edit.read = config[s]
    BY <2>2
  <2>4. \A f \in Patchers : patching'[f] = IF f = e THEN edit ELSE patching[f]
    BY <2>1, <2>2 DEF RowsInv
  <2>5. DOMAIN patching' = Patchers /\ config' = config /\ given' = given
    BY <1>2, <2>1 DEF RowsInv, BeginEdit
  <2> QED BY <2>1, <2>3, <2>4, <2>5 DEF RowsInv
<1>3. ASSUME NEW e \in Patchers, CommitEdit(e)
      PROVE  RowsInv'
  <2> DEFINE s == patching[e].slot
             row == Merged(config[s], patching[e].patch)
  <2>1. /\ s \in Slots /\ patching[e].patch \in Patches /\ patching[e].at = "locked"
        /\ patching[e].read = config[s]
    BY <1>3 DEF RowsInv, CommitEdit
  <2>2. /\ config' = [config EXCEPT ![s] = row] /\ given' = [given EXCEPT ![s] = row]
        /\ patching' = [patching EXCEPT ![e] = NoEdit]
    BY <1>3, <2>1 DEF RowsInv, CommitEdit
  <2>3. row \in ConfigRow
    <3>1. config[s] \in ConfigRow
      BY <2>1 DEF RowsInv
    <3> QED BY <2>1, <3>1, MergedRows
  <2> HIDE DEF row
  <2>4. NoEdit.at # "locked"
    BY DEF NoEdit
  <2>5. given' = config' /\ config' \in [Slots -> ConfigRow] /\ DOMAIN patching' = Patchers
    BY <2>2, <2>3 DEF RowsInv
  <2>6. ASSUME NEW f \in Patchers, patching'[f].at = "locked"
        PROVE  f # e /\ patching'[f] = patching[f]
    BY <2>2, <2>4, <2>6 DEF RowsInv
  <2>7. ASSUME NEW f \in Patchers, patching'[f].at = "locked"
        PROVE  /\ patching'[f].slot \in Slots /\ patching'[f].patch \in Patches
               /\ patching'[f].read = config'[patching'[f].slot]
    <3>1. f # e /\ patching'[f] = patching[f] /\ patching[f].at = "locked"
      BY <2>6, <2>7
    <3>2. patching[f].slot # s
      BY <2>1, <3>1 DEF RowsInv
    <3> QED BY <2>2, <3>1, <3>2 DEF RowsInv
  <2>8. \A f, g \in Patchers :
          patching'[f].at = "locked" /\ patching'[g].at = "locked" /\ patching'[f].slot = patching'[g].slot
              => f = g
    BY <2>6 DEF RowsInv
  <2> QED BY <2>5, <2>7, <2>8 DEF RowsInv
<1>4. CASE \E c \in Calls : CallStep(c)
  BY <1>1, <1>4 DEF CallStep, StartCall, Configure, BeginRequest, FetchToken, Answered,
                    Unauthorized, Finish
<1> QED BY <1>1, <1>2, <1>3, <1>4 DEF RegistryNext, cvars

(* However many PATCH requests read and write the rows, each row is what   *)
(* the patches committed to it make one after the other: the advisory lock *)
(* leaves nobody room between a read and its write.                        *)
THEOREM PatchesBuildUp == RegistrySpec => []NoPatchIsLost
<1>1. RowsInv => NoPatchIsLost
  BY DEF RowsInv, NoPatchIsLost
<1> QED BY <1>1, RowsStart, RowsStep, PTL DEF RegistrySpec

-----------------------------------------------------------------------------
(* The shared connector.                                                   *)

CallRecord ==
    [at : {"idle", "load", "ready", "fetch", "send"}, slot : Slots \cup {NoSlot},
     url : Slots \cup {NoSlot}, token : Slots \cup {NoSlot}, left : Int, again : BOOLEAN]

(* A request in preparation has the token of what it is addressed to,      *)
(* unless it is sent for the second time.                                  *)
CallsInv ==
    /\ bound \in Slots \cup {NoSlot} /\ cached \in Slots \cup {NoSlot}
    /\ call \in [Calls -> CallRecord]
    /\ \A c \in Calls :
          call[c].at \in {"fetch", "send"} /\ ~call[c].again => call[c].token = call[c].url
    /\ FirstTokenFitsTheService

LEMMA CallsStart == RegistryInit => CallsInv
BY RegistryAssumption DEF RegistryInit, CallsInv, CallRecord, NoCall, FirstTokenFitsTheService

LEMMA CallsStep == CallsInv /\ [RegistryNext]_cvars => CallsInv'
<1> SUFFICES ASSUME CallsInv, [RegistryNext]_cvars PROVE CallsInv'
  OBVIOUS
<1>1. CASE UNCHANGED <<bound, cached, call, sent>>
  BY <1>1 DEF CallsInv, FirstTokenFitsTheService
<1>2. ASSUME NEW c \in Calls, NEW x \in CallRecord, call' = [call EXCEPT ![c] = x],
             x.at \in {"fetch", "send"} /\ ~x.again => x.token = x.url,
             bound' \in Slots \cup {NoSlot}, cached' \in Slots \cup {NoSlot},
             sent' = sent \/ (Sent(c) /\ call[c].at = "send")
      PROVE  CallsInv'
  <2>1. call' \in [Calls -> CallRecord] /\ \A d \in Calls : call'[d] = IF d = c THEN x ELSE call[d]
    BY <1>2 DEF CallsInv
  <2>2. \A d \in Calls :
          call'[d].at \in {"fetch", "send"} /\ ~call'[d].again => call'[d].token = call'[d].url
    BY <1>2, <2>1 DEF CallsInv
  <2>3. FirstTokenFitsTheService'
    BY <1>2 DEF CallsInv, FirstTokenFitsTheService, Sent
  <2> QED BY <1>2, <2>1, <2>2, <2>3 DEF CallsInv
<1>3. ASSUME NEW c \in Calls, CallStep(c)
      PROVE  CallsInv'
  <2>0. call[c] \in CallRecord
    BY DEF CallsInv
  <2>1. CASE StartCall(c)
    <3>1. PICK s \in Slots : call' = [call EXCEPT ![c] =
              [NoCall EXCEPT !.at = "load", !.slot = s, !.left = MaxRequests]]
      BY <2>1 DEF StartCall
    <3>2. PICK x : x = [NoCall EXCEPT !.at = "load", !.slot = s, !.left = MaxRequests]
      OBVIOUS
    <3>3. x \in CallRecord /\ x.at = "load"
      <4>1. MaxRequests \in Int
        BY RegistryAssumption
      <4> QED BY <3>2, <4>1 DEF NoCall, CallRecord
    <3> QED BY <1>2, <2>1, <3>1, <3>2, <3>3 DEF StartCall, CallsInv
  <2>2. CASE Configure(c)
    <3>1. PICK x : x = [call[c] EXCEPT !.at = "ready"]
      OBVIOUS
    <3>2. x \in CallRecord /\ x.at = "ready" /\ call' = [call EXCEPT ![c] = x]
      BY <2>0, <2>2, <3>1 DEF Configure, CallRecord
    <3>3. bound' \in Slots \cup {NoSlot}
      BY <2>0, <2>2 DEF Configure, CallRecord
    <3> QED BY <1>2, <2>2, <3>2, <3>3 DEF Configure, CallsInv
  <2>3. CASE BeginRequest(c)
    <3>1. PICK x : x = [call[c] EXCEPT !.url = bound, !.again = FALSE,
                                       !.at = IF CachedFits THEN "send" ELSE "fetch",
                                       !.token = IF CachedFits THEN cached ELSE bound]
      OBVIOUS
    <3>2. x.token = x.url /\ call' = [call EXCEPT ![c] = x]
      BY <2>0, <2>3, <3>1 DEF BeginRequest, CallRecord, CachedFits
    <3>3. x \in CallRecord
      BY <2>0, <3>1 DEF CallsInv, CallRecord
    <3> QED BY <1>2, <2>3, <3>2, <3>3 DEF BeginRequest, CallsInv
  <2>4. CASE FetchToken(c)
    <3>1. PICK x : x = [call[c] EXCEPT !.at = "send"]
      OBVIOUS
    <3>2. /\ x \in CallRecord /\ call' = [call EXCEPT ![c] = x]
          /\ x.again = call[c].again /\ x.token = call[c].token /\ x.url = call[c].url
      BY <2>0, <2>4, <3>1 DEF FetchToken, CallRecord
    <3>3. cached' \in Slots \cup {NoSlot} /\ (~call[c].again => call[c].token = call[c].url)
      BY <2>0, <2>4 DEF FetchToken, CallRecord, CallsInv
    <3> QED BY <1>2, <2>4, <3>2, <3>3 DEF FetchToken, CallsInv
  <2>5. CASE Answered(c)
    <3>1. PICK x : x = [call[c] EXCEPT !.at = "ready", !.left = @ - 1]
      OBVIOUS
    <3>2. x.at = "ready" /\ call' = [call EXCEPT ![c] = x] /\ Sent(c) /\ call[c].at = "send"
      BY <2>0, <2>5, <3>1 DEF Answered, CallRecord
    <3>3. x \in CallRecord
      <4>1. call[c].left - 1 \in Int
        BY <2>0 DEF CallRecord
      <4> QED BY <2>0, <3>1, <4>1 DEF CallRecord
    <3> QED BY <1>2, <2>5, <3>2, <3>3 DEF Answered, CallsInv
  <2>6. CASE Unauthorized(c)
    <3>1. PICK x : x = [call[c] EXCEPT !.at = "fetch", !.again = TRUE, !.token = bound]
      OBVIOUS
    <3>2. x.again /\ call' = [call EXCEPT ![c] = x] /\ Sent(c) /\ call[c].at = "send"
      BY <2>0, <2>6, <3>1 DEF Unauthorized, CallRecord
    <3>3. x \in CallRecord
      BY <2>0, <3>1 DEF CallsInv, CallRecord
    <3> QED BY <1>2, <2>6, <3>2, <3>3 DEF Unauthorized, CallsInv
  <2>7. CASE Finish(c)
    <3>1. NoCall \in CallRecord /\ NoCall.at = "idle"
      BY DEF NoCall, CallRecord
    <3> QED BY <1>2, <2>7, <3>1 DEF Finish, CallsInv
  <2> QED BY <1>3, <2>1, <2>2, <2>3, <2>4, <2>5, <2>6, <2>7 DEF CallStep
<1>4. CASE \E e \in Patchers : BeginEdit(e) \/ CommitEdit(e)
  BY <1>1, <1>4 DEF BeginEdit, CommitEdit
<1> QED BY <1>1, <1>3, <1>4 DEF RegistryNext, cvars

(* However the calls of one process interleave on the connector they share, *)
(* the first request of each goes out with a token for where it is going.  *)
THEOREM FirstTokensFit == RegistrySpec => []FirstTokenFitsTheService
<1>1. CallsInv => FirstTokenFitsTheService
  BY DEF CallsInv
<1> QED BY <1>1, CallsStart, CallsStep, PTL DEF RegistrySpec

-----------------------------------------------------------------------------
(* A call of a client.                                                     *)

ExchangeRecord ==
    [at : {"new", "token", "token body", "send", "sent", "sleep", "body", "answered", "failed"},
     token : Nat \cup {NoToken}, again : BOOLEAN, waits : Nat,
     status : {"none", "ok", "401", "429"}, effects : Nat, revoked : BOOLEAN]

(* What has been served once waits for its answer, has it, or was given up *)
(* on: it is never sent again.                                             *)
ServedOnce(x) ==
    /\ x.effects \in {0, 1}
    /\ x.effects = 1 => \/ x.at \in {"sent", "body", "answered"} /\ x.status = "ok"
                        \/ x.at = "failed"

(* The token that goes with a second attempt was fetched for it, so it is  *)
(* refused only after a revocation.                                        *)
FreshSecondTime(x) ==
    /\ x.again => x.at # "new" /\ Fetches
    /\ x.status = "401" => Fetches
    /\ x.again /\ x.at \in {"send", "sleep"} => x.token \in valid \/ x.revoked
    /\ x.again /\ x.at = "sent" /\ x.status = "429" => x.token \in valid \/ x.revoked
    /\ x.again /\ x.at \in {"sent", "body", "failed"} /\ x.status = "401" => x.revoked

HttpInv ==
    /\ exchange \in [Exchanges -> ExchangeRecord]
    /\ issued \in Nat /\ cachedToken \in Nat \cup {NoToken}
    /\ \A c \in Exchanges : ServedOnce(exchange[c]) /\ FreshSecondTime(exchange[c])

LEMMA HttpStarts == HttpInit => HttpInv
BY HttpAssumption DEF HttpInit, HttpInv, ExchangeRecord, Unsent, ServedOnce, FreshSecondTime

(* A step of one call, while no token is revoked.                          *)
LEMMA OneCallMoves ==
    ASSUME HttpInv, NEW c \in Exchanges, NEW x \in ExchangeRecord,
           exchange' = [exchange EXCEPT ![c] = x],
           client' = client, valid \subseteq valid',
           issued' \in Nat, cachedToken' \in Nat \cup {NoToken},
           ServedOnce(x),
           /\ x.again => x.at # "new" /\ Fetches
           /\ x.status = "401" => Fetches
           /\ x.again /\ x.at \in {"send", "sleep"} => x.token \in valid' \/ x.revoked
           /\ x.again /\ x.at = "sent" /\ x.status = "429" => x.token \in valid' \/ x.revoked
           /\ x.again /\ x.at \in {"sent", "body", "failed"} /\ x.status = "401" => x.revoked
    PROVE  HttpInv'
<1>1. /\ exchange' \in [Exchanges -> ExchangeRecord]
      /\ \A d \in Exchanges : exchange'[d] = IF d = c THEN x ELSE exchange[d]
  BY DEF HttpInv
<1>2. \A d \in Exchanges : ServedOnce(exchange[d])'
  BY <1>1 DEF HttpInv, ServedOnce
<1>3. \A d \in Exchanges : FreshSecondTime(exchange[d])'
  BY <1>1 DEF HttpInv, FreshSecondTime, Fetches
<1> QED BY <1>1, <1>2, <1>3 DEF HttpInv

LEMMA HttpSteps == HttpInv /\ [HttpNext]_hvars => HttpInv'
<1> SUFFICES ASSUME HttpInv, [HttpNext]_hvars PROVE HttpInv'
  OBVIOUS
<1>1. CASE UNCHANGED <<client, issued, valid, exchange>> /\ cachedToken' = cachedToken
  BY <1>1 DEF HttpInv, FreshSecondTime, Fetches, ServedOnce
<1>2. ASSUME NEW t \in 1..MaxTokens, Revoke(t)
      PROVE  HttpInv'
  <2>1. ASSUME NEW c \in Exchanges
        PROVE  /\ exchange'[c] \in ExchangeRecord
               /\ ServedOnce(exchange'[c])
               /\ FreshSecondTime(exchange[c])'
    <3> DEFINE e == exchange[c]
    <3>1. e \in ExchangeRecord /\ ServedOnce(e) /\ FreshSecondTime(e)
      BY DEF HttpInv
    <3>2. PICK r \in BOOLEAN : r = (e.revoked \/ e.at # "new")
      BY <3>1 DEF ExchangeRecord
    <3>3. PICK x : x = [e EXCEPT !.revoked = r]
      OBVIOUS
    <3>4. exchange'[c] = x
      BY <1>2, <3>1, <3>2, <3>3 DEF Revoke, ExchangeRecord
    <3>5. /\ x \in ExchangeRecord /\ x.at = e.at /\ x.token = e.token /\ x.again = e.again
          /\ x.status = e.status /\ x.effects = e.effects /\ x.revoked = r
      BY <3>1, <3>3 DEF ExchangeRecord
    <3> HIDE DEF e
    <3>6. ServedOnce(x)
      BY <3>1, <3>5 DEF ServedOnce
    <3>7. /\ x.again => x.at # "new" /\ Fetches
          /\ x.status = "401" => Fetches
          /\ x.again => x.revoked
      BY <3>1, <3>2, <3>5 DEF FreshSecondTime
    <3>8. Fetches' = Fetches
      BY <1>2 DEF Revoke, Fetches
    <3> QED BY <3>4, <3>5, <3>6, <3>7, <3>8 DEF FreshSecondTime
  <2>2. exchange' \in [Exchanges -> ExchangeRecord]
    <3>1. DOMAIN exchange' = Exchanges /\ exchange' = [c \in Exchanges |-> exchange'[c]]
      BY <1>2 DEF Revoke
    <3> QED BY <2>1, <3>1
  <2>3. \A c \in Exchanges : ServedOnce(exchange[c])'
    BY <2>1 DEF ServedOnce
  <2> QED BY <1>2, <2>1, <2>2, <2>3 DEF HttpInv, Revoke
<1>3. ASSUME NEW c \in Exchanges,
             Sends(c) \/ TokenHeaders(c) \/ TokenBody(c) \/ Serve(c) \/ Body(c) \/ Timeout(c)
      PROVE  HttpInv'
  <2> DEFINE e == exchange[c]
  <2>1. e \in ExchangeRecord /\ ServedOnce(e) /\ FreshSecondTime(e)
    BY DEF HttpInv
  <2>2. CASE BeginCall(c)
    <3>1. e.at = "new" /\ ~e.again /\ e.effects = 0
      BY <2>1, <2>2 DEF BeginCall, FreshSecondTime, ServedOnce
    <3>2. PICK x : /\ x \in ExchangeRecord /\ x.again = e.again /\ x.status = e.status
                   /\ x.effects = e.effects /\ exchange' = [exchange EXCEPT ![c] = x]
      BY <2>1, <2>2 DEF BeginCall, WithToken, Step, HttpInv, ExchangeRecord
    <3> QED BY <2>1, <2>2, <3>1, <3>2, OneCallMoves DEF BeginCall, HttpInv, ServedOnce, FreshSecondTime
  <2>3. CASE Throttled(c)
    <3>1. e.at = "sent" /\ e.status = "429" /\ e.effects = 0
      BY <2>1, <2>3 DEF Throttled, Heard, ServedOnce
    <3>2. PICK x : /\ x \in ExchangeRecord /\ x.at \in {"sleep", "failed"} /\ x.again = e.again
                   /\ x.status = e.status /\ x.effects = e.effects /\ x.token = e.token
                   /\ x.revoked = e.revoked /\ exchange' = [exchange EXCEPT ![c] = x]
      <4>1. PICK n \in Nat : n = e.waits
        BY <2>1 DEF ExchangeRecord
      <4>2. PICK m \in Nat : m = n + 1
        OBVIOUS
      <4>3. PICK x : x = IF n < MaxThrottleRetries THEN [e EXCEPT !.at = "sleep", !.waits = m]
                                                   ELSE [e EXCEPT !.at = "failed"]
        OBVIOUS
      <4>4. exchange' = [exchange EXCEPT ![c] = x]
        BY <2>3, <4>1, <4>2, <4>3 DEF Throttled, Step
      <4>5. /\ x \in ExchangeRecord /\ x.at \in {"sleep", "failed"} /\ x.again = e.again
            /\ x.status = e.status /\ x.effects = e.effects /\ x.token = e.token
            /\ x.revoked = e.revoked
        BY <2>1, <4>3 DEF ExchangeRecord
      <4> QED BY <4>4, <4>5
    <3> QED BY <2>1, <2>3, <3>1, <3>2, OneCallMoves DEF Throttled, HttpInv, ServedOnce, FreshSecondTime
  <2>4. CASE WakeUp(c)
    <3>1. e.at = "sleep" /\ e.effects = 0
      BY <2>1, <2>4 DEF WakeUp, ServedOnce
    <3>2. PICK x : /\ x \in ExchangeRecord /\ x.at = "send" /\ x.again = e.again
                   /\ x.status = e.status /\ x.effects = e.effects /\ x.token = e.token
                   /\ x.revoked = e.revoked /\ exchange' = [exchange EXCEPT ![c] = x]
      BY <2>1, <2>4 DEF WakeUp, Step, ExchangeRecord
    <3> QED BY <2>1, <2>4, <3>1, <3>2, OneCallMoves DEF WakeUp, HttpInv, ServedOnce, FreshSecondTime
  <2>5. CASE RefusedToken(c)
    <3>1. e.at = "sent" /\ e.status = "401" /\ e.effects = 0 /\ Fetches
      BY <2>1, <2>5 DEF RefusedToken, Heard, ServedOnce, FreshSecondTime
    <3>2. PICK x : x = [[e EXCEPT !.again = TRUE] EXCEPT !.at = "token"]
      OBVIOUS
    <3>3. /\ x \in ExchangeRecord /\ x.at = "token" /\ x.again /\ x.status = e.status
          /\ x.effects = e.effects
      BY <2>1, <3>2 DEF ExchangeRecord
    <3>4. exchange' = [exchange EXCEPT ![c] = x]
      BY <2>5, <3>1, <3>2 DEF RefusedToken, WithToken, Cached, Insist, Step
    <3> QED BY <2>1, <2>5, <3>1, <3>3, <3>4, OneCallMoves DEF RefusedToken, HttpInv, ServedOnce
  <2>6. CASE Headers(c)
    <3>1. e.at = "sent"
      BY <2>6 DEF Headers, Heard
    <3>2. PICK x : /\ x \in ExchangeRecord /\ x.at = "body" /\ x.again = e.again
                   /\ x.status = e.status /\ x.effects = e.effects /\ x.token = e.token
                   /\ x.revoked = e.revoked /\ exchange' = [exchange EXCEPT ![c] = x]
      BY <2>1, <2>6 DEF Headers, Step, ExchangeRecord
    <3> QED BY <2>1, <2>6, <3>1, <3>2, OneCallMoves DEF Headers, HttpInv, ServedOnce, FreshSecondTime
  <2>7. CASE TokenHeaders(c)
    <3>1. e.at = "token" /\ e.effects = 0
      BY <2>1, <2>7 DEF TokenHeaders, ServedOnce
    <3>2. PICK x : /\ x \in ExchangeRecord /\ x.at = "token body" /\ x.again = e.again
                   /\ x.status = e.status /\ x.effects = e.effects
                   /\ exchange' = [exchange EXCEPT ![c] = x]
      BY <2>1, <2>7 DEF TokenHeaders, Step, ExchangeRecord
    <3> QED BY <2>1, <2>7, <3>1, <3>2, OneCallMoves DEF TokenHeaders, HttpInv, ServedOnce, FreshSecondTime
  <2>8. CASE TokenBody(c)
    <3>1. e.at = "token body" /\ e.effects = 0 /\ issued' \in Nat /\ valid' = valid \cup {issued'}
      <4>1. e.at = "token body" /\ issued' = issued + 1 /\ valid' = valid \cup {issued'}
        BY <2>8 DEF TokenBody
      <4>2. issued \in Nat
        BY DEF HttpInv
      <4>3. PICK n \in Nat : n = issued + 1
        BY <4>2
      <4> QED BY <2>1, <4>1, <4>3 DEF ServedOnce
    <3>2. PICK x : /\ x \in ExchangeRecord /\ x.at = "send" /\ x.again = e.again
                   /\ x.status = e.status /\ x.effects = e.effects /\ x.token = issued'
                   /\ exchange' = [exchange EXCEPT ![c] = x]
      BY <2>1, <2>8, <3>1 DEF TokenBody, Step, ExchangeRecord
    <3> QED BY <2>1, <2>8, <3>1, <3>2, OneCallMoves DEF TokenBody, HttpInv, ServedOnce, FreshSecondTime
  <2>9. CASE Serve(c)
    <3> DEFINE Refusable == Fetches /\ e.token \notin valid
    <3>1. e.at = "send" /\ e.effects = 0
      BY <2>1, <2>9 DEF Serve, ServedOnce
    <3>2. ASSUME NEW x \in ExchangeRecord, exchange' = [exchange EXCEPT ![c] = x],
                 x.at = "sent", x.again = e.again, x.token = e.token, x.revoked = e.revoked,
                 x.effects \in {0, 1}, x.effects = 1 => x.status = "ok",
                 x.status = "401" => Refusable
          PROVE  HttpInv'
      BY <2>1, <2>9, <3>1, <3>2, OneCallMoves DEF Serve, HttpInv, ServedOnce, FreshSecondTime
    <3> HIDE DEF Refusable
    <3>3. ASSUME NEW status \in {"401", "429"},
                 exchange' = [exchange EXCEPT ![c] = [e EXCEPT !.at = "sent", !.status = status]],
                 status = "401" => Refusable
          PROVE  HttpInv'
      <4>1. PICK x : x = [e EXCEPT !.at = "sent", !.status = status]
        OBVIOUS
      <4>2. /\ x \in ExchangeRecord /\ x.at = "sent" /\ x.again = e.again /\ x.token = e.token
            /\ x.revoked = e.revoked /\ x.effects = e.effects /\ x.status = status
        BY <2>1, <4>1 DEF ExchangeRecord
      <4>3. exchange' = [exchange EXCEPT ![c] = x]
        BY <3>3, <4>1
      <4>4. x.status = "401" => Refusable
        BY <3>3, <4>2
      <4>5. x.effects \in {0, 1} /\ (x.effects = 1 => x.status = "ok")
        BY <3>1, <4>2
      <4>6. x \in ExchangeRecord
        BY <4>2
      <4>7. x.at = "sent" /\ x.again = e.again /\ x.token = e.token /\ x.revoked = e.revoked
        BY <4>2
      <4> QED BY <3>2, <4>3, <4>4, <4>5, <4>6, <4>7
    <3>4. CASE exchange' = [exchange EXCEPT ![c] = [e EXCEPT !.at = "sent", !.status = "ok", !.effects = @ + 1]]
      <4>1. PICK n \in Nat : n = e.effects + 1 /\ n = 1
        BY <3>1
      <4>2. PICK x : x = [e EXCEPT !.at = "sent", !.status = "ok", !.effects = n]
        OBVIOUS
      <4>3. exchange' = [exchange EXCEPT ![c] = x]
        BY <3>4, <4>1, <4>2
      <4>4. /\ x \in ExchangeRecord /\ x.at = "sent" /\ x.again = e.again /\ x.token = e.token
            /\ x.revoked = e.revoked /\ x.effects = n /\ x.status = "ok"
        BY <2>1, <4>2 DEF ExchangeRecord
      <4> QED BY <3>2, <4>1, <4>3, <4>4
    <3> QED BY <2>9, <3>3, <3>4 DEF Serve, Step, Refusable
  <2>10. CASE Body(c)
    <3>1. e.at = "body"
      BY <2>10 DEF Body
    <3>2. PICK x : /\ x \in ExchangeRecord /\ x.again = e.again
                   /\ x.at = (IF e.status = "ok" THEN "answered" ELSE "failed")
                   /\ x.status = e.status /\ x.effects = e.effects /\ x.token = e.token
                   /\ x.revoked = e.revoked /\ exchange' = [exchange EXCEPT ![c] = x]
      BY <2>1, <2>10 DEF Body, Step, ExchangeRecord
    <3> QED BY <2>1, <2>10, <3>1, <3>2, OneCallMoves DEF Body, HttpInv, ServedOnce, FreshSecondTime
  <2>11. CASE Timeout(c)
    <3>1. e.at # "new"
      BY <2>11 DEF Timeout
    <3>2. PICK x : /\ x \in ExchangeRecord /\ x.again = e.again /\ x.at = "failed"
                   /\ x.status = "none" /\ x.effects = e.effects
                   /\ exchange' = [exchange EXCEPT ![c] = x]
      BY <2>1, <2>11 DEF Timeout, TimedOut, Step, ExchangeRecord
    <3> QED BY <2>1, <2>11, <3>1, <3>2, OneCallMoves DEF Timeout, HttpInv, ServedOnce, FreshSecondTime
  <2> QED BY <1>3, <2>2, <2>3, <2>4, <2>5, <2>6, <2>7, <2>8, <2>9, <2>10, <2>11 DEF Sends
<1>4. CASE MarginReached
  BY <1>1, <1>4 DEF MarginReached
<1> QED BY <1>1, <1>2, <1>3, <1>4 DEF HttpNext, hvars

(* However often the request of a call is sent, through refused tokens,    *)
(* waits and timeouts, the service acts on it at most once.                *)
THEOREM EffectsHappenOnce == HttpSpec => []NoEffectTwice
<1>1. HttpInv => NoEffectTwice
  BY DEF HttpInv, ServedOnce, NoEffectTwice
<1> QED BY <1>1, HttpStarts, HttpSteps, PTL DEF HttpSpec

(* A caller is handed a 401 only where a token was revoked while the call  *)
(* was under way.                                                          *)
THEOREM RefusalsAreTheServices == HttpSpec => []StaleTokensAreInvisible
<1>1. HttpInv => StaleTokensAreInvisible
  BY DEF HttpInv, FreshSecondTime, StaleTokensAreInvisible
<1> QED BY <1>1, HttpStarts, HttpSteps, PTL DEF HttpSpec

-----------------------------------------------------------------------------
(* The mappings of one target.                                             *)

MapRow == [remote : RemoteNames, enabled : BOOLEAN]

(* What a request asks for.                                                *)
Asked(t) ==
    t.op # "none" =>
        /\ {"op", "of"} \subseteq DOMAIN t
        /\ t.op \in {"create", "switch", "rename", "remove"} /\ t.of \in MappedFields
        /\ t.op = "switch" => "to" \in DOMAIN t /\ t.to \in BOOLEAN
        /\ t.op = "rename" => "name" \in DOMAIN t /\ t.name \in RemoteNames

Requested(t) == Asked(t) /\ t.op # "none"

(* The synchronization under way has a person, and rows to send that are   *)
(* the rows there are unless something changed since they were read.       *)
SyncInv ==
    syncing.on =>
        /\ syncing = [on |-> TRUE, of |-> syncing.of, rows |-> syncing.rows, clean |-> syncing.clean]
        /\ syncing.of \in Bearers /\ syncing.clean \in BOOLEAN
        /\ syncing.clean => syncing.rows = Sending

MappingsInv ==
    /\ map \in [MappedFields -> MapRow \cup {NoMapping}]
    /\ defined \subseteq CustomFields
    /\ holds \in [Bearers -> SUBSET MappedFields]
    /\ remote \in [Bearers -> [RemoteNames -> MappedFields \cup {NoField}]]
    /\ uptodate \subseteq Bearers
    /\ syncing.on \in BOOLEAN /\ SyncInv
    /\ DOMAIN editor = Officers
    /\ \A o \in Officers :
          /\ editor[o] = [rows |-> editor[o].rows, answers |-> editor[o].answers,
                          dialog |-> editor[o].dialog]
          /\ editor[o].dialog.shown => Requested(editor[o].dialog.request)
    /\ DOMAIN tx = Officers
    /\ \A o \in Officers : Asked(tx[o]) /\ (tx[o].op = "none" => "seen" \notin DOMAIN tx[o])
    /\ DisabledIsCleared

LEMMA MappingsStart == MappingsInit => MappingsInv
<1> SUFFICES ASSUME MappingsInit PROVE MappingsInv
  OBVIOUS
<1>1. holds \in [Bearers -> SUBSET MappedFields]
  BY DEF MappingsInit, MappedFields
<1>2. syncing.on = FALSE
  BY DEF MappingsInit, NoSync
<1>3. \A o \in Officers : Asked(tx[o]) /\ "seen" \notin DOMAIN tx[o]
  BY DEF MappingsInit, NoTx, Asked
<1>4. /\ DOMAIN editor = Officers
      /\ \A o \in Officers :
          /\ editor[o] = [rows |-> editor[o].rows, answers |-> editor[o].answers,
                          dialog |-> editor[o].dialog]
          /\ ~editor[o].dialog.shown
  BY DEF MappingsInit, NoDialog
<1> QED BY <1>1, <1>2, <1>3, <1>4 DEF MappingsInit, MappingsInv, SyncInv, DisabledIsCleared

(* What the settings and the rows make of an account, as long as they      *)
(* stay.                                                                   *)
LEMMA SettledStays ==
    ASSUME MappingsInv, map' = map, defined' = defined, holds' = holds, remote' = remote,
           uptodate' \subseteq uptodate
    PROVE  Sending' = Sending /\ DisabledIsCleared'
<1>1. Sending' = Sending
  BY DEF Sending
<1> QED BY <1>1 DEF MappingsInv, DisabledIsCleared

LEMMA ScreensMove ==
    ASSUME MappingsInv, UNCHANGED <<map, defined, holds, remote, syncing, uptodate>>,
           DOMAIN editor' = Officers,
           \A o \in Officers :
              /\ editor'[o] = [rows |-> editor'[o].rows, answers |-> editor'[o].answers,
                               dialog |-> editor'[o].dialog]
              /\ editor'[o].dialog.shown => Requested(editor'[o].dialog.request),
           DOMAIN tx' = Officers,
           \A o \in Officers : Asked(tx'[o]) /\ (tx'[o].op = "none" => "seen" \notin DOMAIN tx'[o])
    PROVE  MappingsInv'
<1>1. Sending' = Sending /\ DisabledIsCleared'
  BY SettledStays
<1> QED BY <1>1 DEF MappingsInv, SyncInv, Asked, Requested

(* A step of one officer's editor or request.                              *)
LEMMA OfficersMove ==
    ASSUME MappingsInv, UNCHANGED <<map, defined, holds, remote, syncing, uptodate>>,
           NEW o \in Officers, NEW e, NEW t,
           DOMAIN editor' = Officers, DOMAIN tx' = Officers,
           \A p \in Officers : /\ editor'[p] = IF p = o THEN e ELSE editor[p]
                               /\ tx'[p] = IF p = o THEN t ELSE tx[p],
           e = [rows |-> e.rows, answers |-> e.answers, dialog |-> e.dialog],
           e.dialog.shown => Requested(e.dialog.request),
           Asked(t), t.op = "none" => "seen" \notin DOMAIN t
    PROVE  MappingsInv'
<1>1. \A p \in Officers :
        /\ editor'[p] = [rows |-> editor'[p].rows, answers |-> editor'[p].answers,
                         dialog |-> editor'[p].dialog]
        /\ editor'[p].dialog.shown => Requested(editor'[p].dialog.request)
  BY DEF MappingsInv
<1>2. \A p \in Officers : Asked(tx'[p]) /\ (tx'[p].op = "none" => "seen" \notin DOMAIN tx'[p])
  BY DEF MappingsInv
<1> QED BY <1>1, <1>2, ScreensMove

LEMMA EditorsMove ==
    ASSUME MappingsInv, NEW o \in Officers, UNCHANGED <<map, settings, targetside>>,
           UNCHANGED tx,
           NEW e, editor' = [editor EXCEPT ![o] = e],
           e = [rows |-> e.rows, answers |-> e.answers, dialog |-> e.dialog],
           e.dialog.shown => Requested(e.dialog.request)
    PROVE  MappingsInv'
<1>1. /\ DOMAIN editor' = Officers /\ DOMAIN tx' = Officers
      /\ \A p \in Officers : /\ editor'[p] = IF p = o THEN e ELSE editor[p]
                             /\ tx'[p] = IF p = o THEN tx[o] ELSE tx[p]
  BY DEF MappingsInv
<1>2. Asked(tx[o]) /\ (tx[o].op = "none" => "seen" \notin DOMAIN tx[o])
  BY DEF MappingsInv
<1> QED BY <1>1, <1>2, OfficersMove DEF settings, targetside

LEMMA RequestsMove ==
    ASSUME MappingsInv, NEW o \in Officers, UNCHANGED <<map, settings, targetside>>,
           NEW e, editor' = [editor EXCEPT ![o] = e] \/ (editor' = editor /\ e = editor[o]),
           e = [rows |-> e.rows, answers |-> e.answers, dialog |-> e.dialog],
           e.dialog.shown => Requested(e.dialog.request),
           NEW t, Send(o, t), Asked(t), t.op # "none"
    PROVE  MappingsInv'
<1>1. /\ DOMAIN editor' = Officers /\ DOMAIN tx' = Officers
      /\ \A p \in Officers : /\ editor'[p] = IF p = o THEN e ELSE editor[p]
                             /\ tx'[p] = IF p = o THEN t ELSE tx[p]
  BY DEF MappingsInv, Send
<1> QED BY <1>1, OfficersMove DEF settings, targetside

LEMMA ChecksPass ==
    ASSUME MappingsInv, NEW o \in Officers, CheckCreate(o) \/ CheckChange(o)
    PROVE  MappingsInv'
<1>1. PICK seen : \/ tx' = [tx EXCEPT ![o] = Passed(tx[o], seen)]
                  \/ tx' = [tx EXCEPT ![o] = NoTx]
  BY DEF CheckCreate, CheckChange
<1>2. tx[o].op \in {"create", "switch", "rename", "remove"} /\ Asked(tx[o])
  BY DEF MappingsInv, CheckCreate, CheckChange, Pending
<1>3. PICK t : t = IF tx' = [tx EXCEPT ![o] = NoTx] THEN NoTx ELSE Passed(tx[o], seen)
  OBVIOUS
<1>4. Asked(t) /\ (t.op = "none" => "seen" \notin DOMAIN t)
  <2>1. CASE t = NoTx
    BY <2>1 DEF NoTx, Asked
  <2>2. CASE t = Passed(tx[o], seen)
    <3>1. /\ DOMAIN t = {"seen"} \cup DOMAIN tx[o]
          /\ \A f \in DOMAIN tx[o] : f # "seen" => t[f] = tx[o][f]
      BY <2>2 DEF Passed
    <3>2. /\ {"op", "of"} \subseteq DOMAIN tx[o] /\ t.op = tx[o].op /\ t.of = tx[o].of
          /\ "to" \in DOMAIN tx[o] => t.to = tx[o].to
          /\ "name" \in DOMAIN tx[o] => t.name = tx[o].name
      BY <1>2, <3>1 DEF Asked
    <3> QED BY <1>2, <3>1, <3>2 DEF Asked
  <2> QED BY <1>3, <2>1, <2>2
<1>5. /\ DOMAIN tx' = Officers /\ DOMAIN editor' = Officers
      /\ editor[o] = [rows |-> editor[o].rows, answers |-> editor[o].answers,
                      dialog |-> editor[o].dialog]
      /\ editor[o].dialog.shown => Requested(editor[o].dialog.request)
      /\ \A p \in Officers : /\ editor'[p] = IF p = o THEN editor[o] ELSE editor[p]
                             /\ tx'[p] = IF p = o THEN t ELSE tx[p]
  BY <1>1, <1>3 DEF MappingsInv, CheckCreate, CheckChange
<1>6. UNCHANGED <<map, defined, holds, remote, syncing, uptodate>>
  BY DEF CheckCreate, CheckChange, settings, targetside
<1> QED BY <1>4, <1>5, <1>6, OfficersMove

LEMMA ButtonsMove ==
    ASSUME MappingsInv, NEW o \in Officers,
           \/ LoadRows(o) \/ ShowRows(o) \/ ConfirmExport(o) \/ CancelExport(o)
           \/ \E d \in MappedFields :
                 \/ AskImpact(o, d) \/ SwitchOff(o, d) \/ RemoveRow(o, d)
                 \/ \E n \in RemoteNames : RenameRow(o, d, n)
    PROVE  MappingsInv'
<1> DEFINE e0 == editor[o]
<1>1. /\ e0 = [rows |-> e0.rows, answers |-> e0.answers, dialog |-> e0.dialog]
      /\ e0.dialog.shown => Requested(e0.dialog.request)
  BY DEF MappingsInv
<1>2. CASE LoadRows(o)
  <2>1. PICK e : e = [e0 EXCEPT !.answers = @ \cup {map}]
    OBVIOUS
  <2>2. e = [rows |-> e.rows, answers |-> e.answers, dialog |-> e.dialog] /\ e.dialog = e0.dialog
    BY <1>1, <2>1
  <2> QED BY <1>1, <1>2, <2>1, <2>2, EditorsMove DEF LoadRows
<1>3. CASE ShowRows(o)
  <2>1. PICK shown \in e0.answers :
          editor' = [editor EXCEPT ![o].rows = shown, ![o].answers = @ \ {shown}]
    BY <1>3 DEF ShowRows
  <2>2. PICK e : e = [e0 EXCEPT !.rows = shown, !.answers = @ \ {shown}]
    OBVIOUS
  <2>3. e = [rows |-> e.rows, answers |-> e.answers, dialog |-> e.dialog] /\ e.dialog = e0.dialog
    BY <1>1, <2>2
  <2>4. editor' = [editor EXCEPT ![o] = e]
    BY <2>1, <2>2 DEF MappingsInv
  <2> QED BY <1>1, <1>3, <2>3, <2>4, EditorsMove DEF ShowRows
<1>4. CASE ConfirmExport(o)
  <2>1. PICK e : e = [e0 EXCEPT !.dialog = NoDialog]
    OBVIOUS
  <2>2. e = [rows |-> e.rows, answers |-> e.answers, dialog |-> e.dialog] /\ ~e.dialog.shown
    BY <1>1, <2>1 DEF NoDialog
  <2>3. Asked(e0.dialog.request)
    BY <1>1, <1>4 DEF ConfirmExport, Requested
  <2>4. PICK t : t = e0.dialog.request /\ Asked(t)
    BY <2>3
  <2>5. Send(o, t) /\ editor' = [editor EXCEPT ![o] = e] /\ UNCHANGED <<map, settings, targetside>>
    BY <1>4, <2>1, <2>4 DEF ConfirmExport
  <2>6. t.op # "none"
    BY <1>1, <1>4, <2>4 DEF ConfirmExport, Requested
  <2> QED BY <2>2, <2>4, <2>5, <2>6, RequestsMove
<1>5. CASE CancelExport(o)
  <2>1. PICK e : e = [e0 EXCEPT !.dialog = NoDialog]
    OBVIOUS
  <2>2. e = [rows |-> e.rows, answers |-> e.answers, dialog |-> e.dialog] /\ ~e.dialog.shown
    BY <1>1, <2>1 DEF NoDialog
  <2> QED BY <1>5, <2>1, <2>2, EditorsMove DEF CancelExport
<1>6. ASSUME NEW d \in MappedFields, AskImpact(o, d)
      PROVE  MappingsInv'
  <2>1. \A count : Asked(Enabling(o, d, count)) /\ Enabling(o, d, count).op # "none"
    BY DEF Asked, Enabling
  <2>2. CASE HolderCount(d) = 0
    BY <1>1, <1>6, <2>1, <2>2, RequestsMove DEF AskImpact
  <2>3. CASE HolderCount(d) # 0
    <3>1. PICK request : request = Enabling(o, d, HolderCount(d))
      OBVIOUS
    <3>2. PICK e : e = [e0 EXCEPT !.dialog = [shown |-> TRUE, request |-> request]]
      OBVIOUS
    <3>3. /\ e = [rows |-> e.rows, answers |-> e.answers, dialog |-> e.dialog]
          /\ e.dialog.request = request
      BY <1>1, <3>2
    <3>4. editor' = [editor EXCEPT ![o] = e] /\ UNCHANGED tx
      BY <1>6, <2>3, <3>1, <3>2 DEF AskImpact
    <3>5. Requested(request) /\ UNCHANGED <<map, settings, targetside>>
      BY <1>6, <2>1, <3>1 DEF AskImpact, Requested
    <3> QED BY <3>3, <3>4, <3>5, EditorsMove
  <2> QED BY <2>2, <2>3
<1>7. ASSUME NEW d \in MappedFields, SwitchOff(o, d)
      PROVE  MappingsInv'
  <2>1. PICK shown : shown = [e0.rows EXCEPT ![d].enabled = FALSE]
    OBVIOUS
  <2>2. PICK e : e = [e0 EXCEPT !.rows = shown]
    OBVIOUS
  <2>3. e = [rows |-> e.rows, answers |-> e.answers, dialog |-> e.dialog] /\ e.dialog = e0.dialog
    BY <1>1, <2>2
  <2>4. editor' = [editor EXCEPT ![o] = e]
    BY <1>7, <2>1, <2>2 DEF SwitchOff
  <2>5. PICK t : t = [op |-> "switch", of |-> d, to |-> FALSE]
    OBVIOUS
  <2>6. Asked(t) /\ t.op # "none"
    BY <2>5 DEF Asked
  <2>7. Send(o, t)
    BY <1>7, <2>5 DEF SwitchOff
  <2> QED BY <1>1, <1>7, <2>3, <2>4, <2>6, <2>7, RequestsMove DEF SwitchOff
<1>8. ASSUME NEW d \in MappedFields, RemoveRow(o, d)
      PROVE  MappingsInv'
  <2>1. PICK t : t = [op |-> "remove", of |-> d]
    OBVIOUS
  <2>2. Asked(t) /\ t.op # "none"
    BY <2>1 DEF Asked
  <2> QED BY <1>1, <1>8, <2>1, <2>2, RequestsMove DEF RemoveRow
<1>9. ASSUME NEW d \in MappedFields, NEW n \in RemoteNames, RenameRow(o, d, n)
      PROVE  MappingsInv'
  <2>1. PICK t : t = [op |-> "rename", of |-> d, name |-> n]
    OBVIOUS
  <2>2. Asked(t) /\ t.op # "none"
    BY <2>1 DEF Asked
  <2> QED BY <1>1, <1>9, <2>1, <2>2, RequestsMove DEF RenameRow
<1> QED BY <1>2, <1>3, <1>4, <1>5, <1>6, <1>7, <1>8, <1>9

(* What changes rows, definitions or what a person holds leaves nobody it  *)
(* concerns up to date, nor the synchronization under way.                 *)
LEMMA ChangesOutdate ==
    ASSUME MappingsInv, NEW people \in SUBSET Bearers, Outdated(people),
           \/ people = Bearers /\ holds' = holds
           \/ Sending' = Sending /\ map' = map /\ \A u \in Bearers \ people : holds'[u] = holds[u]
    PROVE  /\ DisabledIsCleared' /\ SyncInv' /\ syncing'.on \in BOOLEAN
           /\ remote' = remote /\ uptodate' \subseteq Bearers
<1>1. uptodate' = uptodate \ people /\ remote' = remote /\ uptodate \subseteq Bearers
  BY DEF Outdated, MappingsInv
<1>2. DisabledIsCleared'
  BY <1>1 DEF MappingsInv, DisabledIsCleared
<1>3. CASE syncing.on /\ syncing.of \in people
  <2> DEFINE s == syncing
  <2>1. syncing' = [s EXCEPT !.clean = FALSE]
    BY <1>3 DEF Outdated
  <2>2. s = [on |-> TRUE, of |-> s.of, rows |-> s.rows, clean |-> s.clean] /\ s.of \in Bearers
    BY <1>3 DEF MappingsInv, SyncInv
  <2>3. PICK no, yes : no = FALSE /\ yes = TRUE
    OBVIOUS
  <2>4. PICK k : k = s.clean
    OBVIOUS
  <2> HIDE DEF s
  <2>5. syncing' = [on |-> yes, of |-> s.of, rows |-> s.rows, clean |-> no]
    <3>1. s = [on |-> yes, of |-> s.of, rows |-> s.rows, clean |-> k] /\ syncing' = [s EXCEPT !.clean = no]
      BY <2>1, <2>2, <2>3, <2>4
    <3> QED BY <3>1
  <2>6. /\ syncing'.on = TRUE /\ syncing'.of = s.of /\ syncing'.rows = s.rows /\ syncing'.clean = FALSE
        /\ syncing' = [on |-> TRUE, of |-> syncing'.of, rows |-> syncing'.rows, clean |-> syncing'.clean]
    BY <2>3, <2>5
  <2>7. SyncInv'
    BY <2>2, <2>6 DEF SyncInv
  <2> QED BY <1>1, <1>2, <2>6, <2>7
<1>4. CASE ~(syncing.on /\ syncing.of \in people)
  <2>1. syncing' = syncing
    BY <1>4 DEF Outdated
  <2>2. syncing.on => syncing.of \in Bearers
    BY DEF MappingsInv, SyncInv
  <2>3. syncing.on => Sending' = Sending
    BY <1>4, <2>2
  <2> QED BY <1>1, <1>2, <2>1, <2>3 DEF MappingsInv, SyncInv
<1> QED BY <1>3, <1>4

LEMMA WritesMove ==
    ASSUME MappingsInv, NEW o \in Officers, NEW n \in RemoteNames, WriteRow(o, n)
    PROVE  MappingsInv'
<1> DEFINE t == tx[o]
           d == t.of
           row == RowAfter(t, n)
<1>1. Asked(t) /\ t.op # "none" /\ d \in MappedFields
  BY DEF MappingsInv, WriteRow, Asked
<1>2. row \in MapRow \cup {NoMapping}
  <2>1. map[d] \in MapRow \cup {NoMapping} /\ [remote |-> n, enabled |-> TRUE] \in MapRow
    BY <1>1 DEF MappingsInv, MapRow
  <2>2. CASE map[d] = NoMapping
    BY <2>1, <2>2 DEF RowAfter
  <2>3. CASE map[d] # NoMapping
    <3>1. map[d] \in MapRow
      BY <2>1, <2>3
    <3>2. t.op = "switch" => [map[d] EXCEPT !.enabled = t.to] \in MapRow
      <4>1. t.op = "switch" => t.to \in BOOLEAN
        BY <1>1 DEF Asked
      <4>2. \A b \in BOOLEAN : [map[d] EXCEPT !.enabled = b] \in MapRow
        BY <3>1 DEF MapRow
      <4> QED BY <4>1, <4>2
    <3>3. t.op = "rename" => [map[d] EXCEPT !.remote = t.name] \in MapRow
      <4>1. t.op = "rename" => t.name \in RemoteNames
        BY <1>1 DEF Asked
      <4>2. \A m \in RemoteNames : [map[d] EXCEPT !.remote = m] \in MapRow
        BY <3>1 DEF MapRow
      <4> QED BY <4>1, <4>2
    <3> QED BY <1>1, <2>3, <3>1, <3>2, <3>3 DEF RowAfter, Asked
  <2> QED BY <2>2, <2>3
<1>3. map' = [map EXCEPT ![d] = row]
  BY DEF WriteRow
<1> HIDE DEF row
<1>4. map' \in [MappedFields -> MapRow \cup {NoMapping}]
  BY <1>1, <1>2, <1>3 DEF MappingsInv
<1>5. /\ DisabledIsCleared' /\ SyncInv' /\ syncing'.on \in BOOLEAN
      /\ remote' = remote /\ uptodate' \subseteq Bearers
  BY ChangesOutdate DEF WriteRow, settings
<1>6. DOMAIN tx' = Officers /\ \A p \in Officers : tx'[p] = IF p = o THEN NoTx ELSE tx[p]
  BY DEF WriteRow, MappingsInv
<1>7. \A p \in Officers : Asked(tx'[p]) /\ (tx'[p].op = "none" => "seen" \notin DOMAIN tx'[p])
  BY <1>6 DEF MappingsInv, NoTx, Asked
<1>8. PICK e : e = [editor[o] EXCEPT !.answers = @ \cup {map'}]
  OBVIOUS
<1>9. /\ e = [rows |-> e.rows, answers |-> e.answers, dialog |-> e.dialog]
      /\ e.dialog = editor[o].dialog
  <2>1. editor[o] = [rows |-> editor[o].rows, answers |-> editor[o].answers, dialog |-> editor[o].dialog]
    BY DEF MappingsInv
  <2> QED BY <1>8, <2>1
<1>10. DOMAIN editor' = Officers /\ \A p \in Officers : editor'[p] = IF p = o THEN e ELSE editor[p]
  BY <1>8 DEF WriteRow, MappingsInv
<1>11. \A p \in Officers :
         /\ editor'[p] = [rows |-> editor'[p].rows, answers |-> editor'[p].answers,
                          dialog |-> editor'[p].dialog]
         /\ editor'[p].dialog.shown => Requested(editor'[p].dialog.request)
  BY <1>9, <1>10 DEF MappingsInv
<1>12. defined' = defined /\ holds' = holds
  BY DEF WriteRow, settings
<1> QED BY <1>4, <1>5, <1>6, <1>7, <1>10, <1>11, <1>12 DEF MappingsInv, Asked, Requested

LEMMA SettingsMove ==
    ASSUME MappingsInv,
           \/ SetExporting
           \/ \E d \in CustomFields : SetDefinition(d) \/ \E u \in Bearers : EditHolding(u, d)
    PROVE  MappingsInv'
<1>1. CASE SetExporting
  <2>1. UNCHANGED <<map, defined, holds, remote, syncing, uptodate, editor, tx>>
    BY <1>1 DEF SetExporting, targetside
  <2> QED BY <2>1, ScreensMove DEF MappingsInv
<1>2. ASSUME NEW people \in SUBSET Bearers, Outdated(people), UNCHANGED <<map, editor, tx>>,
             defined' \subseteq CustomFields, holds' \in [Bearers -> SUBSET MappedFields],
             \/ people = Bearers /\ holds' = holds
             \/ defined' = defined /\ \A u \in Bearers \ people : holds'[u] = holds[u]
      PROVE  MappingsInv'
  <2>1. defined' = defined => Sending' = Sending
    BY <1>2 DEF Sending
  <2>2. /\ DisabledIsCleared' /\ SyncInv' /\ syncing'.on \in BOOLEAN
        /\ remote' = remote /\ uptodate' \subseteq Bearers
    BY <1>2, <2>1, ChangesOutdate
  <2> QED BY <1>2, <2>2 DEF MappingsInv, Asked, Requested
<1>3. ASSUME NEW d \in CustomFields, SetDefinition(d)
      PROVE  MappingsInv'
  <2>1. defined' \subseteq CustomFields /\ holds' = holds /\ holds \in [Bearers -> SUBSET MappedFields]
    BY <1>3 DEF SetDefinition, MappingsInv
  <2> QED BY <1>2, <1>3, <2>1 DEF SetDefinition
<1>4. ASSUME NEW d \in CustomFields, NEW u \in Bearers, EditHolding(u, d)
      PROVE  MappingsInv'
  <2>1. holds' \in [Bearers -> SUBSET MappedFields] /\ \A v \in Bearers \ {u} : holds'[v] = holds[v]
    <3>1. d \in MappedFields
      BY DEF MappedFields
    <3> QED BY <1>4, <3>1 DEF EditHolding, MappingsInv
  <2>2. defined' = defined /\ defined \subseteq CustomFields /\ Outdated({u}) /\ UNCHANGED <<map, editor, tx>>
    BY <1>4 DEF EditHolding, MappingsInv
  <2>3. {u} \in SUBSET Bearers
    OBVIOUS
  <2> QED BY <1>2, <2>1, <2>2, <2>3
<1> QED BY <1>1, <1>3, <1>4

LEMMA SynchronizationsMove ==
    ASSUME MappingsInv, Patch \/ \E u \in Bearers : ReadSending(u)
    PROVE  MappingsInv'
<1>1. ASSUME NEW u \in Bearers, ReadSending(u)
      PROVE  MappingsInv'
  <2>1. UNCHANGED <<map, defined, holds, remote, uptodate, editor, tx>>
    BY <1>1 DEF ReadSending, settings
  <2>2. PICK yes : yes = TRUE
    OBVIOUS
  <2>3. syncing' = [on |-> yes, of |-> u, rows |-> Sending, clean |-> yes]
    BY <1>1, <2>2 DEF ReadSending
  <2>4. /\ syncing' = [on |-> syncing'.on, of |-> syncing'.of, rows |-> syncing'.rows,
                       clean |-> syncing'.clean]
        /\ syncing'.on = TRUE /\ syncing'.of = u /\ syncing'.rows = Sending /\ syncing'.clean = TRUE
    BY <2>2, <2>3
  <2>5. Sending' = Sending /\ DisabledIsCleared'
    BY <2>1, SettledStays
  <2>6. SyncInv'
    BY <2>4, <2>5 DEF SyncInv
  <2> QED BY <2>1, <2>4, <2>5, <2>6 DEF MappingsInv, Asked, Requested
<1>2. CASE Patch
  <2> DEFINE u == syncing.of
             chosen == syncing.rows
  <2>1. PICK payload \in Payloads(u, chosen) :
          remote' = [remote EXCEPT ![u] =
             [n \in RemoteNames |-> IF payload[n] # NoField \/ n \in AllRemoteNames THEN payload[n]
                                    ELSE remote[u][n]]]
    BY <1>2 DEF Patch, MappingsInv, SyncInv
  <2>2. /\ u \in Bearers /\ syncing.clean \in BOOLEAN /\ (syncing.clean => chosen = Sending)
    BY <1>2 DEF Patch, MappingsInv, SyncInv
  <2>3. /\ uptodate' = IF syncing.clean THEN uptodate \cup {u} ELSE uptodate \ {u}
        /\ UNCHANGED <<map, editor, tx, defined, holds>> /\ syncing'.on = FALSE
    BY <1>2 DEF Patch, settings, NoSync
  <2>4. /\ payload \in [RemoteNames -> MappedFields \cup {NoField}]
        /\ \A n \in RemoteNames : payload[n] # NoField =>
              payload[n] \in DOMAIN chosen \cap holds[u] /\ chosen[payload[n]] = n
    BY DEF Payloads
  <2> HIDE DEF u, chosen
  <2>5. remote' \in [Bearers -> [RemoteNames -> MappedFields \cup {NoField}]]
    BY <2>1, <2>2, <2>4 DEF MappingsInv
  <2>6. \A v \in Bearers : remote'[v] = IF v = u
                             THEN [n \in RemoteNames |-> IF payload[n] # NoField \/ n \in AllRemoteNames
                                                         THEN payload[n] ELSE remote[u][n]]
                             ELSE remote[v]
    BY <2>1 DEF MappingsInv
  <2>7. Sending' = Sending
    BY <2>3 DEF Sending
  <2>8. \A e \in MappedFields : map[e] # NoMapping => map[e].remote \in RemoteNames \cap AllRemoteNames
    BY DEF MappingsInv, MapRow, AllRemoteNames
  <2>9. ASSUME NEW v \in uptodate', NEW e \in MappedFields, map[e] # NoMapping,
               remote'[v][map[e].remote] # NoField
        PROVE  /\ remote'[v][map[e].remote] \in DOMAIN Sending
               /\ Sending[remote'[v][map[e].remote]] = map[e].remote
               /\ remote'[v][map[e].remote] \in holds[v]
    <3>1. PICK n \in RemoteNames \cap AllRemoteNames : n = map[e].remote
      BY <2>8, <2>9
    <3>2. CASE v = u
      <4>1. syncing.clean /\ chosen = Sending
        BY <2>2, <2>3, <2>9, <3>2 DEF u
      <4>2. remote'[v][n] = payload[n]
        BY <2>2, <2>6, <3>1, <3>2
      <4> QED BY <2>4, <2>9, <3>1, <3>2, <4>1, <4>2
    <3>3. CASE v # u
      <4>1. v \in uptodate /\ v \in Bearers /\ remote'[v] = remote[v]
        BY <2>3, <2>6, <2>9, <3>3 DEF MappingsInv
      <4> QED BY <2>9, <4>1 DEF MappingsInv, DisabledIsCleared
    <3> QED BY <3>2, <3>3
  <2>10. DisabledIsCleared'
    BY <2>3, <2>7, <2>9 DEF DisabledIsCleared
  <2>11. uptodate' \subseteq Bearers
    BY <2>2, <2>3 DEF MappingsInv
  <2> QED BY <2>3, <2>5, <2>10, <2>11 DEF MappingsInv, SyncInv, Asked, Requested
<1> QED BY <1>1, <1>2

LEMMA MappingsSteps == MappingsInv /\ [MappingsNext]_avars => MappingsInv'
<1> SUFFICES ASSUME MappingsInv, [MappingsNext]_avars PROVE MappingsInv'
  OBVIOUS
<1>1. CASE UNCHANGED avars
  BY <1>1, ScreensMove DEF MappingsInv, avars
<1>2. CASE MappingsNext
  BY <1>2, ButtonsMove, ChecksPass, WritesMove, SettingsMove, SynchronizationsMove DEF MappingsNext
<1> QED BY <1>1, <1>2

(* Once a person is synchronized after the last change, nothing that was   *)
(* switched off, deactivated or given up is left under the name of any row, *)
(* whatever the officers do meanwhile and in whichever order.              *)
THEOREM WhatIsOffIsCleared == MappingsSpec => []DisabledIsCleared
<1>1. MappingsInv => DisabledIsCleared
  BY DEF MappingsInv
<1> QED BY <1>1, MappingsStart, MappingsSteps, PTL DEF MappingsSpec

-----------------------------------------------------------------------------
(* An application and its client.                                          *)

SsoEventRow == [state : {"pending", "done", "failed"}, attempts : Nat]

ClientRow ==
    [exists : BOOLEAN, clientId : Apps \cup {NoClient}, enabled : BOOLEAN,
     content : Contents \cup {NoClient}, extra : BOOLEAN, mapper : BOOLEAN]

SsoJobRow ==
    [app : Apps \cup {NoClient}, event : Nat, row : Rows \cup {NoClient},
     known : Nat \cup {NoClient}, found : Nat \cup {NoClient},
     step : {"free", "find", "create", "update", "mapper", "commit"}]

SsoTypes ==
    /\ app \in [Apps -> Rows \cup {NoClient}]
    /\ ssoEvent \in [Apps -> Seq(SsoEventRow)]
    /\ ident \in [Apps -> Nat \cup {NoClient}]
    /\ registered \in Seq(ClientRow)
    /\ ssoJob \in [SsoWorkers -> SsoJobRow]

(* A worker holds an event that is pending, no two hold one.               *)
JobsHoldEvents ==
    /\ \A a \in Apps : /\ ssoEvent[a] # << >> => app[a] \in Rows
                       /\ app[a] # NoClient => ssoEvent[a] # << >>
    /\ \A w \in SsoWorkers :
          /\ ssoJob[w].app \in Apps =>
                /\ ssoJob[w].event \in 1..Len(ssoEvent[ssoJob[w].app])
                /\ ssoEvent[ssoJob[w].app][ssoJob[w].event].state = "pending"
                /\ ssoJob[w].row \in Rows
                /\ ssoJob[w].step \in {"update", "mapper", "commit"} => ssoJob[w].found # NoClient
          /\ ssoJob[w].app \notin Apps => ssoJob[w].step = "free"
    /\ \A w, v \in SsoWorkers :
          /\ ssoJob[w].app \in Apps /\ ssoJob[v].app = ssoJob[w].app
          /\ ssoJob[v].event = ssoJob[w].event
          => w = v

(* The clients that are an application's, or may become it.                *)
ClientsOf(a) ==
    {c \in Nat : \/ ident[a] = c
                 \/ c \in RegisteredIds /\ registered[c].clientId = a
                 \/ \E w \in SsoWorkers :
                       ssoJob[w].app = a /\ (ssoJob[w].known = c \/ ssoJob[w].found = c)}

ClientsAreApart ==
    /\ \A a \in Apps : ClientsOf(a) \subseteq RegisteredIds
    /\ \A a, b \in Apps : a # b => ClientsOf(a) \cap ClientsOf(b) = {}

(* The last event of an application waits for a worker.                    *)
Awaited(a) ==
    LET n == Len(ssoEvent[a])
    IN /\ ssoEvent[a] # << >> /\ ssoEvent[a][n].state = "pending"
       /\ \A w \in SsoWorkers : ~(ssoJob[w].app = a /\ ssoJob[w].event = n)

LastIsDone(a) == ssoEvent[a] # << >> /\ ssoEvent[a][Len(ssoEvent[a])].state = "done"

LooksLike(a, c) ==
    /\ registered[c].enabled = app[a].enabled /\ registered[c].content = app[a].content
    /\ app[a].extra => registered[c].extra
    /\ a \in SamlApps /\ registered[c].extra => app[a].extra

JobShows(a, w) ==
    /\ ssoJob[w].row = app[a]
    /\ ssoJob[w].step \in {"mapper", "commit"} /\ registered[ssoJob[w].found].exists =>
          LooksLike(a, ssoJob[w].found)
    /\ ssoJob[w].step = "commit" /\ registered[ssoJob[w].found].exists =>
          Shows(a, ssoJob[w].found)

(* Unless the last event still waits, whoever delivers an application has  *)
(* read the row as it is, and what is written since shows it.              *)
UpToDate(a) ==
    ~Awaited(a) =>
        /\ \A w \in SsoWorkers : ssoJob[w].app = a => JobShows(a, w)
        /\ LastIsDone(a) =>
              ident[a] # NoClient /\ (registered[ident[a]].exists => Shows(a, ident[a]))

SsoInv ==
    /\ SsoTypes /\ JobsHoldEvents /\ ClientsAreApart
    /\ \A a \in Apps : UpToDate(a)

LEMMA SsoStart == SsoInit => SsoInv
<1> SUFFICES ASSUME SsoInit PROVE SsoInv
  OBVIOUS
<1>1. NoSsoJob \in SsoJobRow /\ NoSsoJob.app = NoClient /\ NoSsoJob.step = "free"
      /\ NoSsoJob.known = NoClient /\ NoSsoJob.found = NoClient
  BY DEF NoSsoJob, SsoJobRow
<1>2. NoClient \notin Apps /\ NoClient \notin Nat
  BY SsoAssumption
<1>3. registered \in Seq(ClientRow) /\ registered = << >> /\ DOMAIN registered = {}
  BY DEF SsoInit
<1>4. SsoTypes
  BY <1>1, <1>3 DEF SsoInit, SsoTypes
<1>5. JobsHoldEvents
  BY <1>1, <1>2 DEF SsoInit, JobsHoldEvents
<1>6. ClientsAreApart
  <2>1. \A a \in Apps : ClientsOf(a) = {}
    BY <1>1, <1>2, <1>3 DEF SsoInit, ClientsOf, RegisteredIds
  <2> QED BY <2>1 DEF ClientsAreApart
<1>7. \A a \in Apps : UpToDate(a)
  <2>1. ASSUME NEW a \in Apps PROVE ~LastIsDone(a) /\ \A w \in SsoWorkers : ssoJob[w].app # a
    BY <1>1, <1>2 DEF SsoInit, LastIsDone
  <2> QED BY <2>1 DEF UpToDate
<1> QED BY <1>4, <1>5, <1>6, <1>7 DEF SsoInv

(* An application nobody touches stays up to date.                         *)
LEMMA UntouchedApps ==
    ASSUME SsoInv, NEW a \in Apps, UpToDate(a),
           app'[a] = app[a], ssoEvent'[a] = ssoEvent[a], ident'[a] = ident[a],
           \A w \in SsoWorkers : ssoJob'[w].app = a <=> ssoJob[w].app = a,
           \A w \in SsoWorkers : ssoJob[w].app = a => ssoJob'[w] = ssoJob[w],
           \A c \in ClientsOf(a) : registered'[c].exists =>
               /\ registered[c].exists
               /\ registered'[c].enabled = registered[c].enabled
               /\ registered'[c].content = registered[c].content
               /\ registered'[c].extra = registered[c].extra
               /\ registered'[c].mapper = registered[c].mapper
    PROVE  UpToDate(a)'
<1>1. Awaited(a)' <=> Awaited(a)
  BY DEF Awaited
<1>2. LastIsDone(a)' <=> LastIsDone(a)
  BY DEF LastIsDone
<1>3. ASSUME NEW c \in ClientsOf(a), registered'[c].exists
      PROVE  /\ registered[c].exists
             /\ LooksLike(a, c) => LooksLike(a, c)'
             /\ Shows(a, c) => Shows(a, c)'
  BY <1>3 DEF LooksLike, Shows
<1>4. ASSUME NEW w \in SsoWorkers, ssoJob'[w].app = a, JobShows(a, w)
      PROVE  JobShows(a, w)'
  <2>1. ssoJob[w].app = a /\ ssoJob'[w] = ssoJob[w]
    BY <1>4
  <2>2. CASE ssoJob[w].step \in {"mapper", "commit"}
    <3>1. ssoJob[w].found \in ClientsOf(a)
      BY <2>1, <2>2 DEF SsoInv, SsoTypes, SsoJobRow, JobsHoldEvents, ClientsOf
    <3> QED BY <1>3, <1>4, <2>1, <3>1 DEF JobShows
  <2>3. CASE ssoJob[w].step \notin {"mapper", "commit"}
    BY <1>4, <2>1, <2>3 DEF JobShows
  <2> QED BY <2>2, <2>3
<1>5. ASSUME ident[a] # NoClient, registered[ident[a]].exists => Shows(a, ident[a])
      PROVE  registered'[ident'[a]].exists => Shows(a, ident[a])'
  <2>1. ident[a] \in ClientsOf(a)
    BY <1>5 DEF SsoInv, SsoTypes, ClientsOf
  <2> QED BY <1>3, <1>5, <2>1
<1> QED BY <1>1, <1>2, <1>4, <1>5 DEF UpToDate

(* As long as no application gains a client they stay apart.               *)
LEMMA NobodyGains ==
    ASSUME ClientsAreApart, \A a \in Apps : ClientsOf(a)' \subseteq ClientsOf(a),
           RegisteredIds \subseteq RegisteredIds'
    PROVE  ClientsAreApart'
BY DEF ClientsAreApart

(* A row is written and its event queued.                                  *)
LEMMA RowsAreQueued ==
    ASSUME SsoInv, NEW a \in Apps, NEW row \in Rows, app' = [app EXCEPT ![a] = row],
           Queued(a), UNCHANGED <<ident, registered, ssoJob>>
    PROVE  SsoInv'
<1> DEFINE n == Len(ssoEvent[a]) + 1
           e == [state |-> "pending", attempts |-> 0]
<1>1. e \in SsoEventRow /\ e.state = "pending"
  BY DEF SsoEventRow
<1> HIDE DEF e
<1>2. ssoEvent \in [Apps -> Seq(SsoEventRow)] /\ app \in [Apps -> Rows \cup {NoClient}]
  BY DEF SsoInv, SsoTypes
<1>3. ssoEvent' = [ssoEvent EXCEPT ![a] = Append(@, e)]
  BY DEF Queued, e
<1>4. /\ ssoEvent' \in [Apps -> Seq(SsoEventRow)] /\ app' \in [Apps -> Rows \cup {NoClient}]
      /\ Len(ssoEvent'[a]) = n /\ n \in Nat /\ ssoEvent'[a][n] = e /\ ssoEvent'[a] # << >>
      /\ \A i \in 1..Len(ssoEvent[a]) : ssoEvent'[a][i] = ssoEvent[a][i]
      /\ app'[a] = row
      /\ \A b \in Apps : b # a => ssoEvent'[b] = ssoEvent[b] /\ app'[b] = app[b]
  <2> DEFINE s == ssoEvent[a]
  <2>1. s \in Seq(SsoEventRow)
    BY <1>2
  <2>2. /\ Append(s, e) \in Seq(SsoEventRow) /\ Len(Append(s, e)) = n /\ n \in Nat
        /\ Append(s, e)[n] = e /\ Append(s, e) # << >>
        /\ \A i \in 1..Len(s) : Append(s, e)[i] = s[i]
    BY <1>1, <2>1
  <2>3. ssoEvent' = [ssoEvent EXCEPT ![a] = Append(s, e)]
    BY <1>3
  <2> HIDE DEF s
  <2> QED BY <1>2, <2>2, <2>3 DEF s
<1>5. SsoTypes'
  BY <1>4 DEF SsoInv, SsoTypes
<1>6. JobsHoldEvents'
  <2>1. \A b \in Apps : /\ ssoEvent'[b] # << >> => app'[b] \in Rows
                        /\ app'[b] # NoClient => ssoEvent'[b] # << >>
    BY <1>4 DEF SsoInv, JobsHoldEvents
  <2>2. ASSUME NEW w \in SsoWorkers, ssoJob[w].app \in Apps
        PROVE  /\ ssoJob[w].event \in 1..Len(ssoEvent'[ssoJob[w].app])
               /\ ssoEvent'[ssoJob[w].app][ssoJob[w].event].state = "pending"
    <3>1. CASE ssoJob[w].app = a
      <4>1. ssoJob[w].event \in 1..Len(ssoEvent[a]) /\ ssoEvent[a][ssoJob[w].event].state = "pending"
        BY <3>1 DEF SsoInv, JobsHoldEvents
      <4>2. Len(ssoEvent[a]) \in Nat
        BY <1>2
      <4> QED BY <1>4, <3>1, <4>1, <4>2
    <3>2. CASE ssoJob[w].app # a
      BY <1>4, <2>2, <3>2 DEF SsoInv, JobsHoldEvents
    <3> QED BY <3>1, <3>2
  <2> QED BY <2>1, <2>2 DEF SsoInv, JobsHoldEvents
<1>7. ClientsAreApart'
  BY NobodyGains DEF SsoInv, ClientsOf, RegisteredIds
<1>8. ASSUME NEW b \in Apps PROVE UpToDate(b)'
  <2>1. CASE b = a
    <3>1. Awaited(a)'
      BY <1>1, <1>4 DEF SsoInv, JobsHoldEvents, Awaited
    <3> QED BY <2>1, <3>1 DEF UpToDate
  <2>2. CASE b # a
    BY <1>4, <2>2, UntouchedApps DEF SsoInv
  <2> QED BY <2>1, <2>2
<1> QED BY <1>5, <1>6, <1>7, <1>8 DEF SsoInv

LEMMA AppsAreEdited ==
    ASSUME SsoInv, NEW a \in Apps,
           (\E row \in Rows : CreateApp(a, row) \/ PatchApp(a, row)) \/ SetAppEnabled(a)
    PROVE  SsoInv'
<1>1. CASE \E row \in Rows : CreateApp(a, row) \/ PatchApp(a, row)
  BY <1>1, RowsAreQueued DEF CreateApp, PatchApp
<1>2. CASE SetAppEnabled(a)
  <2>1. app[a] \in Rows
    BY <1>2 DEF SetAppEnabled, SsoInv, SsoTypes
  <2>2. [app[a] EXCEPT !.enabled = ~@] \in Rows
    BY <2>1 DEF Rows
  <2>3. app' = [app EXCEPT ![a] = [app[a] EXCEPT !.enabled = ~@]]
    BY <1>2 DEF SetAppEnabled
  <2> QED BY <1>2, <2>2, <2>3, RowsAreQueued DEF SetAppEnabled
<1> QED BY <1>1, <1>2

LEMMA DeadLettersRevive ==
    ASSUME SsoInv, NEW a \in Apps, NEW i \in 1..Len(ssoEvent[a]), ReviveApp(a, i)
    PROVE  SsoInv'
<1> DEFINE e == [state |-> "pending", attempts |-> 0]
<1>1. e \in SsoEventRow /\ e.state = "pending"
  BY DEF SsoEventRow
<1>2. /\ ssoEvent' = [ssoEvent EXCEPT ![a][i] = e] /\ ssoEvent[a][i].state = "failed"
      /\ UNCHANGED <<app, ident, registered, ssoJob>>
  BY DEF ReviveApp
<1> HIDE DEF e
<1>3. ssoEvent \in [Apps -> Seq(SsoEventRow)]
  BY DEF SsoInv, SsoTypes
<1>4. /\ ssoEvent' \in [Apps -> Seq(SsoEventRow)]
      /\ Len(ssoEvent'[a]) = Len(ssoEvent[a]) /\ ssoEvent'[a][i] = e
      /\ ssoEvent'[a] # << >> /\ ssoEvent[a] # << >>
      /\ \A j \in 1..Len(ssoEvent[a]) : j # i => ssoEvent'[a][j] = ssoEvent[a][j]
      /\ \A b \in Apps : b # a => ssoEvent'[b] = ssoEvent[b]
  BY <1>1, <1>2, <1>3
<1>5. SsoTypes'
  BY <1>2, <1>4 DEF SsoInv, SsoTypes
<1>6. JobsHoldEvents'
  <2>1. \A b \in Apps : /\ ssoEvent'[b] # << >> => app'[b] \in Rows
                        /\ app'[b] # NoClient => ssoEvent'[b] # << >>
    BY <1>2, <1>4 DEF SsoInv, JobsHoldEvents
  <2>2. ASSUME NEW w \in SsoWorkers, ssoJob[w].app \in Apps
        PROVE  /\ ssoJob[w].event \in 1..Len(ssoEvent'[ssoJob[w].app])
               /\ ssoEvent'[ssoJob[w].app][ssoJob[w].event].state = "pending"
    BY <1>1, <1>4, <2>2 DEF SsoInv, JobsHoldEvents
  <2> QED BY <1>2, <2>1, <2>2 DEF SsoInv, JobsHoldEvents
<1>7. ClientsAreApart'
  BY <1>2, NobodyGains DEF SsoInv, ClientsOf, RegisteredIds
<1>8. ASSUME NEW b \in Apps PROVE UpToDate(b)'
  <2>1. CASE b = a
    <3>1. Len(ssoEvent[a]) \in 1..Len(ssoEvent[a])
      BY <1>3, <1>4
    <3>2. LastIsDone(a)' => LastIsDone(a)
      BY <1>1, <1>4, <3>1 DEF LastIsDone
    <3>3. Awaited(a) => Awaited(a)'
      BY <1>2, <1>4, <3>1 DEF Awaited
    <3> QED BY <1>2, <2>1, <3>2, <3>3 DEF SsoInv, UpToDate, JobShows, LooksLike, Shows
  <2>2. CASE b # a
    BY <1>2, <1>4, <2>2, UntouchedApps DEF SsoInv
  <2> QED BY <2>1, <2>2
<1> QED BY <1>5, <1>6, <1>7, <1>8 DEF SsoInv

(* A worker reads the row as it is.  Nobody else has an event of it when   *)
(* the last one is claimed.                                                *)
LEMMA AppsAreClaimed ==
    ASSUME SsoInv, NEW w \in SsoWorkers, NEW a \in Apps, NEW i \in 1..Len(ssoEvent[a]),
           ClaimApp(w, a, i)
    PROVE  SsoInv'
<1> DEFINE j == [NoSsoJob EXCEPT !.app = a, !.event = i, !.row = app[a], !.known = ident[a],
                                 !.step = "find"]
<1>1. /\ ssoJob[w] = NoSsoJob /\ ClaimableApp(a, i) /\ ssoJob' = [ssoJob EXCEPT ![w] = j]
      /\ UNCHANGED <<app, ssoEvent, ident, registered>>
  BY DEF ClaimApp
<1>2. /\ j.app = a /\ j.event = i /\ j.row = app[a] /\ j.known = ident[a] /\ j.found = NoClient
      /\ j.step = "find"
      /\ ssoJob[w].app = NoClient
  BY <1>1 DEF NoSsoJob
<1>3. j \in SsoJobRow
  <2>1. NoSsoJob \in SsoJobRow
    BY DEF NoSsoJob, SsoJobRow
  <2>2. app[a] \in Rows \cup {NoClient} /\ ident[a] \in Nat \cup {NoClient} /\ i \in Nat
    BY DEF SsoInv, SsoTypes
  <2> QED BY <2>1, <2>2 DEF SsoJobRow
<1> HIDE DEF j
<1>4. \A v \in SsoWorkers : ssoJob'[v] = IF v = w THEN j ELSE ssoJob[v]
  BY <1>1 DEF SsoInv, SsoTypes
<1>5. SsoTypes'
  BY <1>1, <1>3 DEF SsoInv, SsoTypes
<1>6. /\ ssoEvent[a][i].state = "pending" /\ \A k \in 1..(i - 1) : ssoEvent[a][k].state # "pending"
      /\ \A v \in SsoWorkers : ~(ssoJob[v].app = a /\ ssoJob[v].event = i)
      /\ ssoEvent[a] # << >> /\ ssoEvent[a] \in Seq(SsoEventRow)
  BY <1>1 DEF ClaimableApp, SsoInv, SsoTypes
<1>7. JobsHoldEvents'
  <2>1. app[a] \in Rows
    BY <1>6 DEF SsoInv, JobsHoldEvents
  <2>2. NoClient \notin Apps
    BY SsoAssumption
  <2>3. ASSUME NEW v \in SsoWorkers, NEW u \in SsoWorkers, ssoJob'[v].app \in Apps,
               ssoJob'[u].app = ssoJob'[v].app, ssoJob'[u].event = ssoJob'[v].event
        PROVE  v = u
    BY <1>2, <1>4, <1>6, <2>3 DEF SsoInv, JobsHoldEvents
  <2>4. ASSUME NEW v \in SsoWorkers
        PROVE  /\ ssoJob'[v].app \in Apps =>
                     /\ ssoJob'[v].event \in 1..Len(ssoEvent[ssoJob'[v].app])
                     /\ ssoEvent[ssoJob'[v].app][ssoJob'[v].event].state = "pending"
                     /\ ssoJob'[v].row \in Rows
                     /\ ssoJob'[v].step \in {"update", "mapper", "commit"} => ssoJob'[v].found # NoClient
               /\ ssoJob'[v].app \notin Apps => ssoJob'[v].step = "free"
    BY <1>2, <1>4, <1>6, <2>1 DEF SsoInv, JobsHoldEvents
  <2> QED BY <1>1, <2>3, <2>4 DEF SsoInv, JobsHoldEvents
<1>8. ClientsAreApart'
  <2>1. NoClient \notin Nat
    BY SsoAssumption
  <2>2. ASSUME NEW b \in Apps PROVE ClientsOf(b)' \subseteq ClientsOf(b)
    BY <1>1, <1>2, <1>4, <2>1 DEF ClientsOf, RegisteredIds
  <2> QED BY <1>1, <2>2, NobodyGains DEF SsoInv, RegisteredIds
<1>9. ASSUME NEW b \in Apps PROVE UpToDate(b)'
  <2>1. CASE b = a /\ i = Len(ssoEvent[a])
    <3>1. \A v \in SsoWorkers : v # w => ssoJob[v].app # a
      BY <1>6, <2>1 DEF SsoInv, JobsHoldEvents
    <3>2. ~LastIsDone(a)'
      BY <1>1, <1>6, <2>1 DEF LastIsDone
    <3> QED BY <1>1, <1>2, <1>4, <2>1, <3>1, <3>2 DEF UpToDate, JobShows
  <2>2. CASE b = a /\ i # Len(ssoEvent[a])
    <3>1. Awaited(a) => Awaited(a)'
      BY <1>1, <1>2, <1>4, <2>2 DEF Awaited
    <3>2. LastIsDone(a)' => LastIsDone(a)
      BY <1>1 DEF LastIsDone
    <3>3. ASSUME NEW v \in SsoWorkers, v # w, JobShows(a, v) PROVE JobShows(a, v)'
      BY <1>1, <1>4, <3>3 DEF JobShows, LooksLike, Shows
    <3>4. JobShows(a, w)'
      BY <1>1, <1>2, <1>4 DEF JobShows
    <3> QED BY <1>1, <1>4, <2>2, <3>1, <3>2, <3>3, <3>4 DEF SsoInv, UpToDate, Shows
  <2>3. CASE b # a
    <3>1. b # NoClient
      BY SsoAssumption
    <3> QED BY <1>1, <1>2, <1>4, <2>3, <3>1, UntouchedApps DEF SsoInv
  <2> QED BY <2>1, <2>2, <2>3
<1> QED BY <1>5, <1>7, <1>8, <1>9 DEF SsoInv

(* A worker lets go of an event that failed, or dies with it.              *)
LEMMA EventsAreLetGo ==
    ASSUME SsoInv, NEW w \in SsoWorkers, ssoJob[w].app \in Apps,
           \/ SsoFails(w, ssoJob[w].event)
           \/ ssoJob' = [ssoJob EXCEPT ![w] = NoSsoJob] /\ UNCHANGED ssoEvent,
           UNCHANGED <<app, ident, registered>>
    PROVE  SsoInv'
<1>0. PICK a \in Apps, i \in Nat : a = ssoJob[w].app /\ i = ssoJob[w].event
  BY DEF SsoInv, SsoTypes, SsoJobRow
<1>1. /\ a \in Apps /\ i \in 1..Len(ssoEvent[a]) /\ ssoEvent[a][i].state = "pending"
      /\ ssoEvent[a] \in Seq(SsoEventRow) /\ ssoEvent[a] # << >>
  BY <1>0 DEF SsoInv, SsoTypes, JobsHoldEvents
<1>2. PICK e \in SsoEventRow : e.state # "done" /\ ssoEvent' = [ssoEvent EXCEPT ![a][i] = e]
  <2>1. CASE SsoFails(w, i)
    <3> DEFINE n == ssoEvent[a][i].attempts + 1
               f == [state |-> IF n >= MaxSsoAttempts THEN "failed" ELSE "pending", attempts |-> n]
    <3>1. n \in Nat
      <4>1. ssoEvent[a][i] \in SsoEventRow
        BY <1>1
      <4> QED BY <4>1 DEF SsoEventRow
    <3>2. ssoEvent' = [ssoEvent EXCEPT ![a][i] = f]
      BY <1>0, <2>1 DEF SsoFails
    <3> HIDE DEF n
    <3>3. f \in SsoEventRow /\ f.state # "done"
      BY <3>1 DEF SsoEventRow
    <3> QED BY <3>2, <3>3
  <2>2. CASE UNCHANGED ssoEvent
    <3>1. ssoEvent[a][i] \in SsoEventRow
      BY <1>1
    <3>2. ssoEvent' = [ssoEvent EXCEPT ![a][i] = ssoEvent[a][i]]
      BY <1>1, <2>2 DEF SsoInv, SsoTypes
    <3> QED BY <1>1, <3>1, <3>2
  <2> QED BY <1>0, <2>1, <2>2
<1>3. /\ ssoEvent' \in [Apps -> Seq(SsoEventRow)]
      /\ Len(ssoEvent'[a]) = Len(ssoEvent[a]) /\ ssoEvent'[a][i] = e /\ ssoEvent'[a] # << >>
      /\ \A k \in 1..Len(ssoEvent[a]) : k # i => ssoEvent'[a][k] = ssoEvent[a][k]
      /\ \A b \in Apps : b # a => ssoEvent'[b] = ssoEvent[b]
  BY <1>1, <1>2 DEF SsoInv, SsoTypes
<1>4. /\ NoSsoJob \in SsoJobRow /\ NoSsoJob.app = NoClient /\ NoSsoJob.step = "free"
      /\ NoSsoJob.known = NoClient /\ NoSsoJob.found = NoClient
      /\ NoClient \notin Apps /\ NoClient \notin Nat
  BY SsoAssumption DEF NoSsoJob, SsoJobRow
<1>5. \A v \in SsoWorkers : ssoJob'[v] = IF v = w THEN NoSsoJob ELSE ssoJob[v]
  BY DEF SsoInv, SsoTypes, SsoFails
<1>6. SsoTypes'
  BY <1>3, <1>4 DEF SsoInv, SsoTypes, SsoFails
<1>7. \A v \in SsoWorkers : v # w /\ ssoJob[v].app = a => ssoJob[v].event # i
  BY <1>0, <1>1 DEF SsoInv, JobsHoldEvents
<1>8. JobsHoldEvents'
  <2>1. \A b \in Apps : /\ ssoEvent'[b] # << >> => app'[b] \in Rows
                        /\ app'[b] # NoClient => ssoEvent'[b] # << >>
    BY <1>1, <1>3 DEF SsoInv, JobsHoldEvents
  <2>2. ASSUME NEW v \in SsoWorkers, ssoJob[v].app \in Apps, v # w
        PROVE  /\ ssoJob[v].event \in 1..Len(ssoEvent'[ssoJob[v].app])
               /\ ssoEvent'[ssoJob[v].app][ssoJob[v].event].state = "pending"
    <3>1. CASE ssoJob[v].app = a
      BY <1>3, <1>7, <2>2, <3>1 DEF SsoInv, JobsHoldEvents
    <3>2. CASE ssoJob[v].app # a
      BY <1>3, <2>2, <3>2 DEF SsoInv, JobsHoldEvents
    <3> QED BY <3>1, <3>2
  <2> QED BY <1>4, <1>5, <2>1, <2>2 DEF SsoInv, JobsHoldEvents
<1>9. ClientsAreApart'
  <2>1. \A b \in Apps : ClientsOf(b)' \subseteq ClientsOf(b)
    BY <1>4, <1>5 DEF ClientsOf, RegisteredIds
  <2> QED BY <2>1, NobodyGains DEF SsoInv, RegisteredIds
<1>10. ASSUME NEW b \in Apps PROVE UpToDate(b)'
  <2>1. CASE b = a
    <3>1. Len(ssoEvent[a]) \in 1..Len(ssoEvent[a])
      BY <1>1
    <3>2. Awaited(a) => Awaited(a)'
      <4>1. Awaited(a) => i # Len(ssoEvent[a])
        BY <1>0 DEF Awaited
      <4>2. \A v \in SsoWorkers : ssoJob'[v].app = a => ssoJob'[v] = ssoJob[v]
        BY <1>4, <1>5
      <4>3. Awaited(a) => ssoEvent'[a][Len(ssoEvent'[a])] = ssoEvent[a][Len(ssoEvent[a])]
        BY <1>3, <3>1, <4>1
      <4> QED BY <1>3, <4>2, <4>3 DEF Awaited
    <3>3. LastIsDone(a)' => LastIsDone(a)
      BY <1>1, <1>2, <1>3, <3>1 DEF LastIsDone
    <3>4. ASSUME NEW v \in SsoWorkers, ssoJob'[v].app = a
          PROVE  v # w /\ ssoJob'[v] = ssoJob[v]
      BY <1>0, <1>1, <1>4, <1>5, <3>4
    <3>5. ASSUME NEW v \in SsoWorkers, ssoJob'[v].app = a, JobShows(a, v) PROVE JobShows(a, v)'
      BY <3>4, <3>5 DEF JobShows, LooksLike, Shows
    <3> QED BY <2>1, <3>2, <3>3, <3>4, <3>5 DEF SsoInv, UpToDate, Shows
  <2>2. CASE b # a
    <3>1. ssoJob[w].app # b /\ ssoJob'[w].app # b
      BY <1>0, <1>4, <1>5, <2>2
    <3> QED BY <1>3, <1>5, <2>2, <3>1, UntouchedApps DEF SsoInv
  <2> QED BY <2>1, <2>2
<1> QED BY <1>6, <1>8, <1>9, <1>10 DEF SsoInv

(* A worker goes on with what it delivers.                                 *)
LEMMA DeliveryGoesOn ==
    ASSUME SsoInv, NEW w \in SsoWorkers, NEW j \in SsoJobRow, ssoJob[w].app \in Apps,
           ssoJob' = [ssoJob EXCEPT ![w] = j],
           j.app = ssoJob[w].app, j.event = ssoJob[w].event, j.row = ssoJob[w].row,
           j.known = ssoJob[w].known, j.step # "free",
           j.step \in {"update", "mapper", "commit"} => j.found # NoClient,
           UNCHANGED <<app, ssoEvent, ident>>, registered' \in Seq(ClientRow)
    PROVE  /\ SsoTypes' /\ JobsHoldEvents'
           /\ \A v \in SsoWorkers : ssoJob'[v] = IF v = w THEN j ELSE ssoJob[v]
           /\ \A b \in Apps : (Awaited(b)' <=> Awaited(b)) /\ (LastIsDone(b)' <=> LastIsDone(b))
           /\ \A b \in Apps : b # ssoJob[w].app =>
                 \A v \in SsoWorkers :
                     /\ ssoJob'[v].app = b <=> ssoJob[v].app = b
                     /\ ssoJob[v].app = b => ssoJob'[v] = ssoJob[v]
<1>1. \A v \in SsoWorkers : ssoJob'[v] = IF v = w THEN j ELSE ssoJob[v]
  BY DEF SsoInv, SsoTypes
<1>2. SsoTypes'
  BY DEF SsoInv, SsoTypes
<1>3. JobsHoldEvents'
  <2>1. ASSUME NEW v \in SsoWorkers, NEW u \in SsoWorkers, ssoJob'[v].app \in Apps,
               ssoJob'[u].app = ssoJob'[v].app, ssoJob'[u].event = ssoJob'[v].event
        PROVE  v = u
    <3>1. ssoJob'[v].app = ssoJob[v].app /\ ssoJob'[v].event = ssoJob[v].event
      BY <1>1
    <3>2. ssoJob'[u].app = ssoJob[u].app /\ ssoJob'[u].event = ssoJob[u].event
      BY <1>1
    <3> QED BY <2>1, <3>1, <3>2 DEF SsoInv, JobsHoldEvents
  <2>2. ASSUME NEW v \in SsoWorkers
        PROVE  /\ ssoJob'[v].app \in Apps =>
                     /\ ssoJob'[v].event \in 1..Len(ssoEvent[ssoJob'[v].app])
                     /\ ssoEvent[ssoJob'[v].app][ssoJob'[v].event].state = "pending"
                     /\ ssoJob'[v].row \in Rows
                     /\ ssoJob'[v].step \in {"update", "mapper", "commit"} => ssoJob'[v].found # NoClient
               /\ ssoJob'[v].app \notin Apps => ssoJob'[v].step = "free"
    BY <1>1 DEF SsoInv, JobsHoldEvents
  <2> QED BY <2>1, <2>2 DEF SsoInv, JobsHoldEvents
<1>4. \A b \in Apps : (Awaited(b)' <=> Awaited(b)) /\ (LastIsDone(b)' <=> LastIsDone(b))
  <2>1. \A v \in SsoWorkers : ssoJob'[v].app = ssoJob[v].app /\ ssoJob'[v].event = ssoJob[v].event
    BY <1>1
  <2> QED BY <2>1 DEF Awaited, LastIsDone
<1> QED BY <1>1, <1>2, <1>3, <1>4

LEMMA FindersMove ==
    ASSUME SsoInv, NEW w \in SsoWorkers, FindClient(w)
    PROVE  SsoInv'
<1>0. NoClient \notin Nat /\ NoClient \notin Apps
  BY SsoAssumption
<1>1. /\ ssoJob[w].app \in Apps /\ ssoJob[w].step = "find" /\ UNCHANGED <<app, ident, registered>>
      /\ ssoJob[w] \in SsoJobRow
  BY DEF FindClient, SsoInv, SsoTypes, JobsHoldEvents
<1>2. ASSUME NEW j \in SsoJobRow, ssoJob' = [ssoJob EXCEPT ![w] = j], UNCHANGED ssoEvent,
             j.app = ssoJob[w].app, j.event = ssoJob[w].event, j.row = ssoJob[w].row,
             j.known = ssoJob[w].known, j.step \in {"update", "create"},
             j.step = "update" => j.found # NoClient,
             j.found # NoClient => j.found \in ClientsOf(ssoJob[w].app)
      PROVE  SsoInv'
  <2>1. registered' \in Seq(ClientRow)
    BY <1>1 DEF SsoInv, SsoTypes
  <2>2. /\ SsoTypes' /\ JobsHoldEvents'
        /\ \A v \in SsoWorkers : ssoJob'[v] = IF v = w THEN j ELSE ssoJob[v]
        /\ \A b \in Apps : (Awaited(b)' <=> Awaited(b)) /\ (LastIsDone(b)' <=> LastIsDone(b))
        /\ \A b \in Apps : b # ssoJob[w].app =>
              \A v \in SsoWorkers :
                  /\ ssoJob'[v].app = b <=> ssoJob[v].app = b
                  /\ ssoJob[v].app = b => ssoJob'[v] = ssoJob[v]
    BY <1>1, <1>2, <2>1, DeliveryGoesOn
  <2>3. ClientsAreApart'
    <3>1. ASSUME NEW b \in Apps, NEW c \in ClientsOf(b)' PROVE c \in ClientsOf(b)
      <4>1. CASE \E v \in SsoWorkers : ssoJob'[v].app = b /\ (ssoJob'[v].known = c \/ ssoJob'[v].found = c)
        <5>1. PICK v \in SsoWorkers : ssoJob'[v].app = b /\ (ssoJob'[v].known = c \/ ssoJob'[v].found = c)
          BY <4>1
        <5>2. c \in Nat /\ c # NoClient
          BY <1>0, <3>1 DEF ClientsOf
        <5>3. CASE v = w
          BY <1>0, <1>2, <2>2, <5>1, <5>2, <5>3 DEF ClientsOf
        <5>4. CASE v # w
          BY <2>2, <5>1, <5>2, <5>4 DEF ClientsOf
        <5> QED BY <5>3, <5>4
      <4>2. CASE ~\E v \in SsoWorkers : ssoJob'[v].app = b /\ (ssoJob'[v].known = c \/ ssoJob'[v].found = c)
        BY <1>1, <3>1, <4>2 DEF ClientsOf, RegisteredIds
      <4> QED BY <4>1, <4>2
    <3> QED BY <1>1, <3>1, NobodyGains DEF SsoInv, RegisteredIds
  <2>4. ASSUME NEW b \in Apps PROVE UpToDate(b)'
    <3>1. CASE b = ssoJob[w].app
      <4>1. ASSUME NEW v \in SsoWorkers, v # w, JobShows(b, v) PROVE JobShows(b, v)'
        BY <1>1, <2>2, <4>1 DEF JobShows, LooksLike, Shows
      <4>2. JobShows(b, w) => JobShows(b, w)'
        BY <1>1, <1>2, <2>2 DEF JobShows
      <4> QED BY <1>1, <1>2, <2>2, <3>1, <4>1, <4>2 DEF SsoInv, UpToDate, Shows
    <3>2. CASE b # ssoJob[w].app
      BY <1>1, <1>2, <2>2, <3>2, UntouchedApps DEF SsoInv
    <3> QED BY <3>1, <3>2
  <2> QED BY <2>2, <2>3, <2>4 DEF SsoInv
<1>3. CASE Existing(w) # {}
  <2>1. PICK c \in Existing(w) :
          ssoJob' = [ssoJob EXCEPT ![w].found = c, ![w].step = "update"] /\ UNCHANGED ssoEvent
    BY <1>3 DEF FindClient
  <2>2. c \in RegisteredIds /\ c \in Nat
    BY DEF Existing, Named, RegisteredIds, SsoInv, SsoTypes
  <2>3. c \in ClientsOf(ssoJob[w].app)
    BY <2>2 DEF Existing, Named, ClientsOf
  <2> DEFINE j == [ssoJob[w] EXCEPT !.found = c, !.step = "update"]
  <2>4. ssoJob' = [ssoJob EXCEPT ![w] = j]
    BY <2>1 DEF SsoInv, SsoTypes
  <2>5. /\ j \in SsoJobRow /\ j.app = ssoJob[w].app /\ j.event = ssoJob[w].event
        /\ j.row = ssoJob[w].row /\ j.known = ssoJob[w].known /\ j.step = "update" /\ j.found = c
    BY <1>1, <2>2 DEF SsoJobRow
  <2> HIDE DEF j
  <2> QED BY <1>0, <1>2, <2>1, <2>2, <2>3, <2>4, <2>5
<1>4. CASE Existing(w) = {} /\ ssoJob[w].known # NoClient
  BY <1>1, <1>4, EventsAreLetGo DEF FindClient
<1>5. CASE Existing(w) = {} /\ ssoJob[w].known = NoClient
  <2> DEFINE j == [ssoJob[w] EXCEPT !.step = "create"]
  <2>1. ssoJob' = [ssoJob EXCEPT ![w] = j] /\ UNCHANGED ssoEvent
    BY <1>5 DEF SsoInv, SsoTypes, FindClient
  <2>2. /\ j \in SsoJobRow /\ j.app = ssoJob[w].app /\ j.event = ssoJob[w].event
        /\ j.row = ssoJob[w].row /\ j.known = ssoJob[w].known /\ j.step = "create"
        /\ j.found = ssoJob[w].found
    BY <1>1 DEF SsoJobRow
  <2>3. ssoJob[w].found # NoClient => ssoJob[w].found \in ClientsOf(ssoJob[w].app)
    BY <1>1 DEF SsoJobRow, ClientsOf
  <2> HIDE DEF j
  <2> QED BY <1>2, <2>1, <2>2, <2>3
<1> QED BY <1>3, <1>4, <1>5

LEMMA MergedClients ==
    ASSUME NEW a \in Apps, NEW rep \in ClientRow, NEW row \in Rows
    PROVE  /\ MergedClient(a, rep, row) \in ClientRow
           /\ MergedClient(a, rep, row).clientId = a
           /\ MergedClient(a, rep, row).exists = rep.exists
           /\ MergedClient(a, rep, row).mapper = rep.mapper
           /\ MergedClient(a, rep, row).enabled = row.enabled
           /\ MergedClient(a, rep, row).content = row.content
           /\ row.extra => MergedClient(a, rep, row).extra
           /\ a \in SamlApps /\ MergedClient(a, rep, row).extra => row.extra
BY DEF MergedClient, ClientRow, Rows

(* What a client of one application becomes is no matter of another's.     *)
LEMMA ClientsAreWritten ==
    ASSUME SsoInv, NEW w \in SsoWorkers, NEW j \in SsoJobRow, ssoJob[w].app \in Apps,
           ssoJob' = [ssoJob EXCEPT ![w] = j],
           j.app = ssoJob[w].app, j.event = ssoJob[w].event, j.row = ssoJob[w].row,
           j.known = ssoJob[w].known, j.found = ssoJob[w].found,
           j.step \in {"mapper", "commit"}, ssoJob[w].found # NoClient,
           NEW rec \in ClientRow,
           registered' = [registered EXCEPT ![ssoJob[w].found] = rec],
           rec.clientId \in {ssoJob[w].app, registered[ssoJob[w].found].clientId},
           rec.exists = registered[ssoJob[w].found].exists,
           ssoJob[w].row = app[ssoJob[w].app] =>
               /\ LooksLike(ssoJob[w].app, ssoJob[w].found) => LooksLike(ssoJob[w].app, ssoJob[w].found)'
               /\ Shows(ssoJob[w].app, ssoJob[w].found) => Shows(ssoJob[w].app, ssoJob[w].found)',
           JobShows(ssoJob[w].app, w) => JobShows(ssoJob[w].app, w)',
           UNCHANGED <<app, ssoEvent, ident>>
    PROVE  SsoInv'
<1>0. NoClient \notin Nat
  BY SsoAssumption
<1>1. PICK a \in Apps, f \in Nat : a = ssoJob[w].app /\ f = ssoJob[w].found
  BY DEF SsoInv, SsoTypes, SsoJobRow
<1>2. f \in ClientsOf(a) /\ f \in RegisteredIds
  BY <1>1 DEF SsoInv, ClientsOf, ClientsAreApart
<1>3. /\ registered' \in Seq(ClientRow) /\ DOMAIN registered' = DOMAIN registered
      /\ \A c \in DOMAIN registered : registered'[c] = IF c = f THEN rec ELSE registered[c]
  BY <1>1, <1>2 DEF SsoInv, SsoTypes, RegisteredIds
<1>4. /\ SsoTypes' /\ JobsHoldEvents'
      /\ \A v \in SsoWorkers : ssoJob'[v] = IF v = w THEN j ELSE ssoJob[v]
      /\ \A b \in Apps : (Awaited(b)' <=> Awaited(b)) /\ (LastIsDone(b)' <=> LastIsDone(b))
      /\ \A b \in Apps : b # a =>
            \A v \in SsoWorkers :
                /\ ssoJob'[v].app = b <=> ssoJob[v].app = b
                /\ ssoJob[v].app = b => ssoJob'[v] = ssoJob[v]
  BY <1>1, <1>3, DeliveryGoesOn
<1>5. ClientsAreApart'
  <2>1. ASSUME NEW b \in Apps, NEW c \in ClientsOf(b)' PROVE c \in ClientsOf(b)
    <3>1. c \in Nat
      BY <2>1 DEF ClientsOf
    <3>2. CASE ident'[b] = c
      BY <3>1, <3>2 DEF ClientsOf
    <3>3. CASE c \in RegisteredIds' /\ registered'[c].clientId = b
      <4>1. CASE c = f
        BY <1>1, <1>2, <1>3, <3>1, <3>3, <4>1 DEF ClientsOf, RegisteredIds
      <4>2. CASE c # f
        BY <1>3, <3>1, <3>3, <4>2 DEF ClientsOf, RegisteredIds
      <4> QED BY <4>1, <4>2
    <3>4. CASE \E v \in SsoWorkers : ssoJob'[v].app = b /\ (ssoJob'[v].known = c \/ ssoJob'[v].found = c)
      BY <1>4, <3>1, <3>4 DEF ClientsOf
    <3> QED BY <2>1, <3>2, <3>3, <3>4 DEF ClientsOf
  <2> QED BY <1>3, <2>1, NobodyGains DEF SsoInv, RegisteredIds
<1>6. ASSUME NEW b \in Apps PROVE UpToDate(b)'
  <2>1. CASE b = a
    <3>1. ASSUME NEW c \in ClientsOf(a), ssoJob[w].row = app[a]
          PROVE  /\ LooksLike(a, c) => LooksLike(a, c)'
                 /\ Shows(a, c) => Shows(a, c)'
                 /\ registered'[c].exists = registered[c].exists
      <4>1. c \in DOMAIN registered
        BY DEF SsoInv, ClientsAreApart, RegisteredIds
      <4>2. CASE c = f
        BY <1>1, <1>3, <3>1, <4>1, <4>2
      <4>3. CASE c # f
        BY <1>3, <4>1, <4>3 DEF LooksLike, Shows
      <4> QED BY <4>2, <4>3
    <3>2. ASSUME NEW v \in SsoWorkers, v # w, ssoJob[v].app = a, ssoJob[w].row = app[a], JobShows(a, v)
          PROVE  JobShows(a, v)'
      <4>1. ssoJob'[v] = ssoJob[v]
        BY <1>4, <3>2
      <4>2. CASE ssoJob[v].step \in {"mapper", "commit"}
        <5>1. ssoJob[v].found \in ClientsOf(a)
          BY <3>2, <4>2 DEF SsoInv, SsoTypes, SsoJobRow, JobsHoldEvents, ClientsOf
        <5> QED BY <3>1, <3>2, <4>1, <5>1 DEF JobShows
      <4>3. CASE ssoJob[v].step \notin {"mapper", "commit"}
        BY <3>2, <4>1, <4>3 DEF JobShows
      <4> QED BY <4>2, <4>3
    <3>3. ASSUME ~Awaited(a)'
          PROVE  /\ \A v \in SsoWorkers : ssoJob'[v].app = a => JobShows(a, v)'
                 /\ LastIsDone(a)' => /\ ident'[a] # NoClient
                                      /\ registered'[ident'[a]].exists => Shows(a, ident[a])'
      <4>1. ~Awaited(a) /\ JobShows(a, w) /\ ssoJob[w].row = app[a]
        BY <1>1, <1>4, <3>3 DEF SsoInv, UpToDate, JobShows
      <4>2. \A v \in SsoWorkers : ssoJob'[v].app = a => JobShows(a, v)'
        BY <1>1, <1>4, <3>2, <4>1 DEF SsoInv, UpToDate
      <4>3. ASSUME LastIsDone(a)'
            PROVE  ident[a] # NoClient /\ ident[a] \in ClientsOf(a)
                   /\ (registered[ident[a]].exists => Shows(a, ident[a]))
        BY <1>4, <4>1, <4>3 DEF SsoInv, SsoTypes, UpToDate, ClientsOf
      <4> QED BY <3>1, <4>1, <4>2, <4>3
    <3> QED BY <2>1, <3>3 DEF UpToDate
  <2>2. CASE b # a
    <3>1. \A c \in ClientsOf(b) : registered'[c] = registered[c]
      BY <1>2, <1>3, <2>2 DEF SsoInv, ClientsAreApart, RegisteredIds
    <3> QED BY <1>4, <2>2, <3>1, UntouchedApps DEF SsoInv
  <2> QED BY <2>1, <2>2
<1> QED BY <1>4, <1>5, <1>6 DEF SsoInv

LEMMA UpdatesMove ==
    ASSUME SsoInv, NEW w \in SsoWorkers, UpdateClient(w)
    PROVE  SsoInv'
<1> DEFINE c == ssoJob[w].found
           a == ssoJob[w].app
<1>1. /\ a \in Apps /\ ssoJob[w].step = "update" /\ UNCHANGED <<app, ident>>
      /\ ssoJob[w] \in SsoJobRow /\ c # NoClient /\ c \in Nat /\ ssoJob[w].row \in Rows
      /\ app[a] \in Rows
  BY DEF UpdateClient, SsoInv, SsoTypes, SsoJobRow, JobsHoldEvents
<1>2. CASE ~registered[c].exists \/ Named(a) \ {c} # {}
  BY <1>1, <1>2, EventsAreLetGo DEF UpdateClient
<1>3. CASE ~(~registered[c].exists \/ Named(a) \ {c} # {})
  <2>1. c \in RegisteredIds
    BY <1>1 DEF SsoInv, ClientsOf, ClientsAreApart
  <2>2. registered[c] \in ClientRow
    BY <2>1 DEF SsoInv, SsoTypes, RegisteredIds
  <2>3. PICK rec : rec = MergedClient(a, registered[c], ssoJob[w].row)
    OBVIOUS
  <2>4. /\ rec \in ClientRow /\ rec.clientId = a
        /\ rec.exists = registered[c].exists /\ rec.mapper = registered[c].mapper
        /\ rec.enabled = ssoJob[w].row.enabled /\ rec.content = ssoJob[w].row.content
        /\ ssoJob[w].row.extra => rec.extra
        /\ a \in SamlApps /\ rec.extra => ssoJob[w].row.extra
    BY <1>1, <2>2, <2>3, MergedClients
  <2>5. PICK j : j = [ssoJob[w] EXCEPT !.step = "mapper"]
    OBVIOUS
  <2>6. /\ j \in SsoJobRow /\ j.app = a /\ j.event = ssoJob[w].event
        /\ j.row = ssoJob[w].row /\ j.known = ssoJob[w].known /\ j.step = "mapper" /\ j.found = c
    BY <1>1, <2>5 DEF SsoJobRow
  <2>7. /\ ssoJob' = [ssoJob EXCEPT ![w] = j] /\ ssoJob'[w] = j /\ UNCHANGED ssoEvent
        /\ registered' = [registered EXCEPT ![c] = rec] /\ registered'[c] = rec
    BY <1>3, <2>1, <2>3, <2>5 DEF SsoInv, SsoTypes, RegisteredIds, UpdateClient
  <2>8. ssoJob[w].row = app[a] => LooksLike(a, c)'
    BY <1>1, <2>4, <2>6, <2>7 DEF LooksLike
  <2>9. ssoJob[w].row = app[a] /\ Shows(a, c) => Shows(a, c)'
    BY <1>1, <2>4, <2>6, <2>7 DEF Shows
  <2>10. JobShows(a, w) => JobShows(a, w)'
    BY <1>1, <2>6, <2>7, <2>8 DEF JobShows
  <2> QED BY <1>1, <2>4, <2>6, <2>7, <2>8, <2>9, <2>10, ClientsAreWritten
<1> QED BY <1>2, <1>3

LEMMA MappersMove ==
    ASSUME SsoInv, NEW w \in SsoWorkers, AssertMapper(w)
    PROVE  SsoInv'
<1> DEFINE c == ssoJob[w].found
           a == ssoJob[w].app
<1>1. /\ a \in Apps /\ ssoJob[w].step = "mapper" /\ UNCHANGED <<app, ident>>
      /\ ssoJob[w] \in SsoJobRow /\ c # NoClient /\ c \in Nat /\ ssoJob[w].row \in Rows
  BY DEF AssertMapper, SsoInv, SsoTypes, SsoJobRow, JobsHoldEvents
<1>2. CASE ssoJob[w].row.groupsClaim /\ ~registered[c].exists
  BY <1>1, <1>2, EventsAreLetGo DEF AssertMapper
<1>3. CASE ~(ssoJob[w].row.groupsClaim /\ ~registered[c].exists)
  <2>1. c \in RegisteredIds
    BY <1>1 DEF SsoInv, ClientsOf, ClientsAreApart
  <2>2. registered[c] \in ClientRow
    BY <2>1 DEF SsoInv, SsoTypes, RegisteredIds
  <2>3. PICK rec : rec = [registered[c] EXCEPT !.mapper = @ \/ ssoJob[w].row.groupsClaim]
    OBVIOUS
  <2>4. /\ rec \in ClientRow /\ rec.clientId = registered[c].clientId
        /\ rec.exists = registered[c].exists
        /\ rec.mapper = (registered[c].mapper \/ ssoJob[w].row.groupsClaim)
        /\ rec.enabled = registered[c].enabled /\ rec.content = registered[c].content
        /\ rec.extra = registered[c].extra
    BY <1>1, <2>2, <2>3 DEF ClientRow, Rows
  <2>5. PICK j : j = [ssoJob[w] EXCEPT !.step = "commit"]
    OBVIOUS
  <2>6. /\ j \in SsoJobRow /\ j.app = a /\ j.event = ssoJob[w].event
        /\ j.row = ssoJob[w].row /\ j.known = ssoJob[w].known /\ j.step = "commit" /\ j.found = c
    BY <1>1, <2>5 DEF SsoJobRow
  <2>7. /\ ssoJob' = [ssoJob EXCEPT ![w] = j] /\ ssoJob'[w] = j /\ UNCHANGED ssoEvent
        /\ registered' = [registered EXCEPT ![c] = rec] /\ registered'[c] = rec
    BY <1>3, <2>1, <2>3, <2>5 DEF SsoInv, SsoTypes, RegisteredIds, AssertMapper
  <2>8. LooksLike(a, c) => LooksLike(a, c)'
    BY <1>1, <2>4, <2>6, <2>7 DEF LooksLike
  <2>9. Shows(a, c) => Shows(a, c)'
    BY <1>1, <2>4, <2>6, <2>7 DEF Shows
  <2>10. JobShows(a, w) => JobShows(a, w)'
    <3>1. ssoJob[w].row = app[a] /\ LooksLike(a, c) => Shows(a, c)'
      BY <1>1, <2>4, <2>6, <2>7 DEF LooksLike, Shows
    <3> QED BY <1>1, <2>4, <2>6, <2>7, <2>8, <3>1 DEF JobShows
  <2> QED BY <1>1, <2>4, <2>6, <2>7, <2>8, <2>9, <2>10, ClientsAreWritten
<1> QED BY <1>2, <1>3

LEMMA CreatorsMove ==
    ASSUME SsoInv, NEW w \in SsoWorkers, CreateClient(w)
    PROVE  SsoInv'
<1>0. NoClient \notin Nat /\ NoClient \notin Apps
  BY SsoAssumption
<1>1. PICK a \in Apps : a = ssoJob[w].app
  BY DEF CreateClient, SsoInv, JobsHoldEvents
<1>2. /\ ssoJob[w].step = "create" /\ UNCHANGED <<app, ident>>
      /\ ssoJob[w] \in SsoJobRow /\ ssoJob[w].row \in Rows
  BY <1>1 DEF CreateClient, SsoInv, SsoTypes, JobsHoldEvents
<1>3. CASE Named(a) # {}
  BY <1>1, <1>2, <1>3, EventsAreLetGo DEF CreateClient
<1>4. CASE Named(a) = {}
  <2>1. PICK n \in Nat : n = Len(registered) + 1
    BY DEF SsoInv, SsoTypes
  <2>2. PICK rec : rec = MergedClient(a, Blank(a), ssoJob[w].row)
    OBVIOUS
  <2>3. /\ rec \in ClientRow /\ rec.clientId = a
        /\ rec.enabled = ssoJob[w].row.enabled /\ rec.content = ssoJob[w].row.content
        /\ ssoJob[w].row.extra => rec.extra
        /\ a \in SamlApps /\ rec.extra => ssoJob[w].row.extra
    <3>1. Blank(a) \in ClientRow
      BY DEF Blank, ClientRow
    <3> QED BY <1>2, <2>2, <3>1, MergedClients
  <2>4. PICK j : j = [ssoJob[w] EXCEPT !.found = n, !.step = "mapper"]
    OBVIOUS
  <2>5. /\ j \in SsoJobRow /\ j.app = a /\ j.event = ssoJob[w].event
        /\ j.row = ssoJob[w].row /\ j.known = ssoJob[w].known /\ j.step = "mapper" /\ j.found = n
    BY <1>1, <1>2, <2>1, <2>4 DEF SsoJobRow
  <2>6. /\ ssoJob' = [ssoJob EXCEPT ![w] = j] /\ UNCHANGED ssoEvent
        /\ registered' = Append(registered, rec)
    BY <1>1, <1>4, <2>1, <2>2, <2>4 DEF SsoInv, SsoTypes, CreateClient
  <2>7. /\ registered' \in Seq(ClientRow) /\ DOMAIN registered' = DOMAIN registered \cup {n}
        /\ \A c \in DOMAIN registered : registered'[c] = registered[c]
        /\ registered'[n] = rec /\ n \notin DOMAIN registered
    BY <2>1, <2>3, <2>6 DEF SsoInv, SsoTypes
  <2>8. /\ SsoTypes' /\ JobsHoldEvents'
        /\ \A v \in SsoWorkers : ssoJob'[v] = IF v = w THEN j ELSE ssoJob[v]
        /\ \A b \in Apps : (Awaited(b)' <=> Awaited(b)) /\ (LastIsDone(b)' <=> LastIsDone(b))
        /\ \A b \in Apps : b # a =>
              \A v \in SsoWorkers :
                  /\ ssoJob'[v].app = b <=> ssoJob[v].app = b
                  /\ ssoJob[v].app = b => ssoJob'[v] = ssoJob[v]
    <3>1. /\ j.app = ssoJob[w].app /\ ssoJob[w].app \in Apps /\ j.step # "free"
          /\ j.found # NoClient /\ UNCHANGED <<app, ssoEvent, ident>>
      BY <1>0, <1>1, <1>2, <2>5, <2>6
    <3> QED BY <1>1, <2>5, <2>6, <2>7, <3>1, DeliveryGoesOn
  <2>9. \A b \in Apps : ClientsOf(b) \subseteq DOMAIN registered
    BY DEF SsoInv, ClientsAreApart, RegisteredIds
  <2>10. ASSUME NEW b \in Apps, NEW c \in ClientsOf(b)'
         PROVE  c \in ClientsOf(b) \/ (b = a /\ c = n)
    <3>1. c \in Nat
      BY <2>10 DEF ClientsOf
    <3>2. CASE ident'[b] = c
      BY <1>2, <3>1, <3>2 DEF ClientsOf
    <3>3. CASE c \in RegisteredIds' /\ registered'[c].clientId = b
      BY <2>3, <2>7, <3>1, <3>3 DEF ClientsOf, RegisteredIds
    <3>4. CASE \E v \in SsoWorkers : ssoJob'[v].app = b /\ (ssoJob'[v].known = c \/ ssoJob'[v].found = c)
      <4>1. PICK v \in SsoWorkers : ssoJob'[v].app = b /\ (ssoJob'[v].known = c \/ ssoJob'[v].found = c)
        BY <3>4
      <4>2. CASE v = w
        BY <1>1, <2>5, <2>8, <3>1, <4>1, <4>2 DEF ClientsOf
      <4>3. CASE v # w
        BY <2>8, <3>1, <4>1, <4>3 DEF ClientsOf
      <4> QED BY <4>2, <4>3
    <3> QED BY <2>10, <3>2, <3>3, <3>4 DEF ClientsOf
  <2>11. ClientsAreApart'
    <3>1. \A b \in Apps : ClientsOf(b)' \subseteq RegisteredIds'
      BY <2>7, <2>9, <2>10 DEF RegisteredIds
    <3>2. \A b, d \in Apps : b # d => ClientsOf(b)' \cap ClientsOf(d)' = {}
      BY <2>7, <2>9, <2>10 DEF SsoInv, ClientsAreApart
    <3> QED BY <3>1, <3>2 DEF ClientsAreApart
  <2>12. ASSUME NEW b \in Apps PROVE UpToDate(b)'
    <3>1. CASE b = a
      <4>1. ASSUME NEW c \in ClientsOf(a)
            PROVE  /\ LooksLike(a, c) => LooksLike(a, c)'
                   /\ Shows(a, c) => Shows(a, c)'
                   /\ registered'[c] = registered[c]
        BY <1>2, <2>7, <2>9 DEF LooksLike, Shows
      <4>2. ASSUME NEW v \in SsoWorkers, v # w, ssoJob[v].app = a, JobShows(a, v)
            PROVE  JobShows(a, v)'
        <5>1. ssoJob'[v] = ssoJob[v]
          BY <2>8, <4>2
        <5>2. CASE ssoJob[v].step \in {"mapper", "commit"}
          <6>1. ssoJob[v].found \in ClientsOf(a)
            BY <4>2, <5>2 DEF SsoInv, SsoTypes, SsoJobRow, JobsHoldEvents, ClientsOf
          <6> QED BY <1>2, <4>1, <4>2, <5>1, <6>1 DEF JobShows
        <5>3. CASE ssoJob[v].step \notin {"mapper", "commit"}
          BY <1>2, <4>2, <5>1, <5>3 DEF JobShows
        <5> QED BY <5>2, <5>3
      <4>3. ssoJob[w].row = app[a] => JobShows(a, w)'
        <5>1. ssoJob[w].row = app[a] => LooksLike(a, n)'
          BY <1>2, <2>3, <2>7 DEF LooksLike
        <5> QED BY <1>2, <2>5, <2>8, <5>1 DEF JobShows
      <4>4. ASSUME ident[a] # NoClient PROVE ident[a] \in ClientsOf(a)
        BY <4>4 DEF SsoInv, SsoTypes, ClientsOf
      <4>5. JobShows(a, w) => ssoJob[w].row = app[a]
        BY DEF JobShows
      <4> QED BY <1>1, <1>2, <2>8, <3>1, <4>1, <4>2, <4>3, <4>4, <4>5 DEF SsoInv, UpToDate
    <3>2. CASE b # a
      BY <1>2, <2>6, <2>7, <2>8, <2>9, <3>2, UntouchedApps DEF SsoInv
    <3> QED BY <3>1, <3>2
  <2> QED BY <2>8, <2>11, <2>12 DEF SsoInv
<1> QED BY <1>3, <1>4

(* Whoever delivers with the row as it is links a client that shows it.    *)
LEMMA CommitsMove ==
    ASSUME SsoInv, NEW w \in SsoWorkers, CommitApp(w)
    PROVE  SsoInv'
<1>0. NoClient \notin Nat /\ NoClient \notin Apps
  BY SsoAssumption
<1>1. PICK a \in Apps, i \in Nat, f \in Nat :
        a = ssoJob[w].app /\ i = ssoJob[w].event /\ f = ssoJob[w].found
  BY DEF CommitApp, SsoInv, SsoTypes, SsoJobRow, JobsHoldEvents
<1>2. /\ ssoJob[w].step = "commit" /\ UNCHANGED <<app, registered>>
      /\ ident' = [ident EXCEPT ![a] = f] /\ ssoJob' = [ssoJob EXCEPT ![w] = NoSsoJob]
      /\ ssoEvent' = [ssoEvent EXCEPT ![a][i].state = "done"]
  BY <1>1 DEF CommitApp
<1>3. /\ i \in 1..Len(ssoEvent[a]) /\ ssoEvent[a][i].state = "pending"
      /\ ssoEvent[a] \in Seq(SsoEventRow) /\ ssoEvent[a] # << >>
  BY <1>1 DEF SsoInv, SsoTypes, JobsHoldEvents
<1>4. PICK e : e = [ssoEvent[a][i] EXCEPT !.state = "done"]
  OBVIOUS
<1>5. e \in SsoEventRow /\ e.state = "done"
  <2>1. ssoEvent[a][i] \in SsoEventRow
    BY <1>3
  <2> QED BY <1>4, <2>1 DEF SsoEventRow
<1>6. /\ ssoEvent' \in [Apps -> Seq(SsoEventRow)]
      /\ Len(ssoEvent'[a]) = Len(ssoEvent[a]) /\ ssoEvent'[a][i] = e /\ ssoEvent'[a] # << >>
      /\ \A k \in 1..Len(ssoEvent[a]) : k # i => ssoEvent'[a][k] = ssoEvent[a][k]
      /\ \A b \in Apps : b # a => ssoEvent'[b] = ssoEvent[b]
  <2>1. ssoEvent' = [ssoEvent EXCEPT ![a][i] = e]
    BY <1>2, <1>3, <1>4 DEF SsoInv, SsoTypes
  <2> QED BY <1>3, <1>5, <2>1 DEF SsoInv, SsoTypes
<1>7. /\ NoSsoJob \in SsoJobRow /\ NoSsoJob.app = NoClient /\ NoSsoJob.step = "free"
      /\ NoSsoJob.known = NoClient /\ NoSsoJob.found = NoClient
  BY DEF NoSsoJob, SsoJobRow
<1>8. \A v \in SsoWorkers : ssoJob'[v] = IF v = w THEN NoSsoJob ELSE ssoJob[v]
  BY <1>2 DEF SsoInv, SsoTypes
<1>9. ident' \in [Apps -> Nat \cup {NoClient}] /\ \A b \in Apps : ident'[b] = IF b = a THEN f ELSE ident[b]
  BY <1>2 DEF SsoInv, SsoTypes
<1>10. SsoTypes'
  BY <1>2, <1>6, <1>7, <1>9 DEF SsoInv, SsoTypes
<1>11. \A v \in SsoWorkers : v # w /\ ssoJob[v].app = a => ssoJob[v].event # i
  BY <1>1, <1>3 DEF SsoInv, JobsHoldEvents
<1>12. JobsHoldEvents'
  <2>1. \A b \in Apps : /\ ssoEvent'[b] # << >> => app'[b] \in Rows
                        /\ app'[b] # NoClient => ssoEvent'[b] # << >>
    BY <1>2, <1>3, <1>6 DEF SsoInv, JobsHoldEvents
  <2>2. ASSUME NEW v \in SsoWorkers, ssoJob[v].app \in Apps, v # w
        PROVE  /\ ssoJob[v].event \in 1..Len(ssoEvent'[ssoJob[v].app])
               /\ ssoEvent'[ssoJob[v].app][ssoJob[v].event].state = "pending"
    <3>1. CASE ssoJob[v].app = a
      BY <1>6, <1>11, <2>2, <3>1 DEF SsoInv, JobsHoldEvents
    <3>2. CASE ssoJob[v].app # a
      BY <1>6, <2>2, <3>2 DEF SsoInv, JobsHoldEvents
    <3> QED BY <3>1, <3>2
  <2> QED BY <1>0, <1>7, <1>8, <2>1, <2>2 DEF SsoInv, JobsHoldEvents
<1>13. ClientsAreApart'
  <2>1. ASSUME NEW b \in Apps PROVE ClientsOf(b)' \subseteq ClientsOf(b)
    BY <1>0, <1>1, <1>2, <1>7, <1>8, <1>9 DEF ClientsOf, RegisteredIds
  <2> QED BY <1>2, <2>1, NobodyGains DEF SsoInv, RegisteredIds
<1>14. ASSUME NEW b \in Apps PROVE UpToDate(b)'
  <2>1. CASE b = a
    <3>1. Len(ssoEvent[a]) \in 1..Len(ssoEvent[a])
      BY <1>3
    <3>2. Awaited(a) => Awaited(a)'
      <4>1. Awaited(a) => i # Len(ssoEvent[a])
        BY <1>1 DEF Awaited
      <4>2. \A v \in SsoWorkers : ssoJob'[v].app = a => ssoJob'[v] = ssoJob[v]
        BY <1>0, <1>7, <1>8
      <4>3. Awaited(a) => ssoEvent'[a][Len(ssoEvent'[a])] = ssoEvent[a][Len(ssoEvent[a])]
        BY <1>6, <3>1, <4>1
      <4> QED BY <1>6, <4>2, <4>3 DEF Awaited
    <3>3. ASSUME NEW v \in SsoWorkers, ssoJob'[v].app = a, JobShows(a, v)
          PROVE  JobShows(a, v)'
      <4>1. ssoJob'[v] = ssoJob[v]
        BY <1>0, <1>7, <1>8, <3>3
      <4> QED BY <1>2, <3>3, <4>1 DEF JobShows, LooksLike, Shows
    <3>4. \A v \in SsoWorkers : ssoJob'[v].app = a => ssoJob[v].app = a
      BY <1>0, <1>7, <1>8
    <3>5. JobShows(a, w) => ident'[a] # NoClient /\ (registered'[ident'[a]].exists => Shows(a, ident[a])')
      BY <1>0, <1>1, <1>2, <1>9 DEF JobShows, Shows
    <3> QED BY <1>1, <2>1, <3>2, <3>3, <3>4, <3>5 DEF SsoInv, UpToDate
  <2>2. CASE b # a
    <3>1. ssoJob[w].app # b /\ ssoJob'[w].app # b
      BY <1>0, <1>1, <1>7, <1>8, <2>2
    <3> QED BY <1>2, <1>6, <1>8, <1>9, <2>2, <3>1, UntouchedApps DEF SsoInv
  <2> QED BY <2>1, <2>2
<1> QED BY <1>10, <1>12, <1>13, <1>14 DEF SsoInv

LEMMA AdministratorsMove ==
    ASSUME SsoInv, NEW c \in RegisteredIds, RenameClient(c) \/ DeleteClient(c)
    PROVE  SsoInv'
<1>0. NoClient \notin Apps
  BY SsoAssumption
<1>1. UNCHANGED <<app, ssoEvent, ident, ssoJob>> /\ registered \in Seq(ClientRow)
      /\ c \in DOMAIN registered
  BY DEF RenameClient, DeleteClient, SsoInv, SsoTypes, RegisteredIds
<1>2. PICK rec \in ClientRow :
        /\ registered' = [registered EXCEPT ![c] = rec]
        /\ rec.exists => registered[c].exists
        /\ rec.enabled = registered[c].enabled /\ rec.content = registered[c].content
        /\ rec.extra = registered[c].extra /\ rec.mapper = registered[c].mapper
        /\ rec.clientId \in {registered[c].clientId, NoClient}
  <2>1. registered[c] \in ClientRow
    BY <1>1
  <2>2. CASE RenameClient(c)
    <3> DEFINE rec == [registered[c] EXCEPT !.clientId = NoClient]
    <3>1. registered' = [registered EXCEPT ![c] = rec]
      BY <2>2 DEF RenameClient
    <3>2. rec \in ClientRow
      BY <2>1 DEF ClientRow
    <3>3. /\ rec.exists = registered[c].exists /\ rec.clientId = NoClient
          /\ rec.enabled = registered[c].enabled /\ rec.content = registered[c].content
          /\ rec.extra = registered[c].extra /\ rec.mapper = registered[c].mapper
      BY <2>1 DEF ClientRow
    <3> QED BY <3>1, <3>2, <3>3
  <2>3. CASE DeleteClient(c)
    <3> DEFINE rec == [registered[c] EXCEPT !.exists = FALSE]
    <3>1. registered' = [registered EXCEPT ![c] = rec]
      BY <2>3 DEF DeleteClient
    <3>2. rec \in ClientRow
      BY <2>1 DEF ClientRow
    <3>3. /\ ~rec.exists /\ rec.clientId = registered[c].clientId
          /\ rec.enabled = registered[c].enabled /\ rec.content = registered[c].content
          /\ rec.extra = registered[c].extra /\ rec.mapper = registered[c].mapper
      BY <2>1 DEF ClientRow
    <3> QED BY <3>1, <3>2, <3>3
  <2> QED BY <2>2, <2>3
<1>3. /\ registered' \in Seq(ClientRow) /\ DOMAIN registered' = DOMAIN registered
      /\ \A d \in DOMAIN registered : registered'[d] = IF d = c THEN rec ELSE registered[d]
  BY <1>1, <1>2
<1>4. SsoTypes' /\ JobsHoldEvents'
  BY <1>1, <1>3 DEF SsoInv, SsoTypes, JobsHoldEvents
<1>5. ASSUME NEW b \in Apps PROVE ClientsOf(b)' \subseteq ClientsOf(b)
  BY <1>0, <1>1, <1>2, <1>3 DEF ClientsOf, RegisteredIds
<1>6. ClientsAreApart'
  BY <1>3, <1>5, NobodyGains DEF SsoInv, RegisteredIds
<1>7. ASSUME NEW b \in Apps PROVE UpToDate(b)'
  <2>1. ClientsOf(b) \subseteq DOMAIN registered
    BY DEF SsoInv, ClientsAreApart, RegisteredIds
  <2>2. ASSUME NEW d \in ClientsOf(b), registered'[d].exists
        PROVE  /\ registered[d].exists
               /\ registered'[d].enabled = registered[d].enabled
               /\ registered'[d].content = registered[d].content
               /\ registered'[d].extra = registered[d].extra
               /\ registered'[d].mapper = registered[d].mapper
    BY <1>2, <1>3, <2>1, <2>2
  <2> QED BY <1>1, <2>2, UntouchedApps DEF SsoInv
<1> QED BY <1>4, <1>6, <1>7 DEF SsoInv

LEMMA SsoSteps == SsoInv /\ [SsoNext]_svars => SsoInv'
<1> SUFFICES ASSUME SsoInv, [SsoNext]_svars PROVE SsoInv'
  OBVIOUS
<1>1. CASE UNCHANGED svars
  <2>1. UNCHANGED <<app, ssoEvent, ident, registered, ssoJob>>
    BY <1>1 DEF svars
  <2>2. \A a \in Apps : UpToDate(a)'
    BY <2>1, UntouchedApps DEF SsoInv
  <2>3. ClientsAreApart'
    BY <2>1, NobodyGains DEF SsoInv, ClientsOf, RegisteredIds
  <2> QED BY <2>1, <2>2, <2>3 DEF SsoInv, SsoTypes, JobsHoldEvents
<1>2. ASSUME NEW w \in SsoWorkers, SsoCallFails(w)
      PROVE  SsoInv'
  BY <1>2, EventsAreLetGo DEF SsoCallFails, SsoInv, JobsHoldEvents
<1>3. ASSUME NEW w \in SsoWorkers, SsoWorkerDies(w)
      PROVE  SsoInv'
  <2>1. CASE ssoJob[w].app \in Apps
    BY <1>3, <2>1, EventsAreLetGo DEF SsoWorkerDies
  <2>2. CASE ssoJob[w].app \notin Apps
    <3>1. /\ UNCHANGED <<app, ssoEvent, ident, registered>>
          /\ \A v \in SsoWorkers : ssoJob'[v] = IF v = w THEN NoSsoJob ELSE ssoJob[v]
          /\ NoSsoJob \in SsoJobRow /\ NoSsoJob.app = NoClient /\ NoSsoJob.step = "free"
          /\ NoSsoJob.known = NoClient /\ NoSsoJob.found = NoClient
          /\ NoClient \notin Apps /\ NoClient \notin Nat
      BY <1>3, SsoAssumption DEF SsoWorkerDies, SsoInv, SsoTypes, NoSsoJob, SsoJobRow
    <3>2. SsoTypes'
      BY <1>3, <3>1 DEF SsoInv, SsoTypes, SsoWorkerDies
    <3>3. JobsHoldEvents'
      BY <2>2, <3>1 DEF SsoInv, JobsHoldEvents
    <3>4. ClientsAreApart'
      BY <3>1, NobodyGains DEF SsoInv, ClientsOf, RegisteredIds
    <3>5. \A a \in Apps : UpToDate(a)'
      BY <2>2, <3>1, UntouchedApps DEF SsoInv
    <3> QED BY <3>2, <3>3, <3>4, <3>5 DEF SsoInv
  <2> QED BY <2>1, <2>2
<1>4. ASSUME NEW w \in SsoWorkers, DeliverApp(w)
      PROVE  SsoInv'
  BY <1>4, AppsAreClaimed, FindersMove, CreatorsMove, UpdatesMove, MappersMove, CommitsMove
     DEF DeliverApp
<1>5. CASE SsoNext
  BY <1>2, <1>3, <1>4, <1>5, AppsAreEdited, DeadLettersRevive, AdministratorsMove DEF SsoNext
<1> QED BY <1>1, <1>5

(* An application whose events are delivered is shown by the client it is  *)
(* linked to, whatever workers read before an edit and wrote after it,     *)
(* delivered twice or half, and whatever Keycloak's administrators did.    *)
THEOREM DeliveredAppsAreShown == SsoSpec => []AppsAreShown
<1>1. SsoInv => AppsAreShown
  <2> SUFFICES ASSUME SsoInv, NEW a \in Apps, app[a] # NoClient, AppSettled(a)
               PROVE  ident[a] # NoClient /\ (registered[ident[a]].exists => Shows(a, ident[a]))
    BY DEF AppsAreShown
  <2>1. ssoEvent[a] # << >> /\ Len(ssoEvent[a]) \in 1..Len(ssoEvent[a])
    BY DEF SsoInv, SsoTypes, JobsHoldEvents
  <2>2. LastIsDone(a) /\ ~Awaited(a)
    BY <2>1 DEF AppSettled, LastIsDone, Awaited
  <2> QED BY <2>2 DEF SsoInv, UpToDate
<1> QED BY <1>1, SsoStart, SsoSteps, PTL DEF SsoSpec

-----------------------------------------------------------------------------
(* The realm of an organization.                                           *)

OrgEventRow == [state : {"pending", "done", "failed"}, attempts : Nat]
ArrivalRow == [state : {"absent", "pending", "done", "failed"}, attempts : Nat, account : BOOLEAN]

ErrandRow ==
    [step : {"idle"}]
    \cup [step : {"post", "probe", "enable", "commit"}, event : Nat, active : BOOLEAN]
    \cup [step : {"apply"}, person : Folk]

RealmsTypes ==
    /\ orgEvent \in Seq(OrgEventRow)
    /\ arrival \in [Folk -> ArrivalRow]
    /\ errand \in [Processes -> ErrandRow]
    /\ \A p \in Processes :
          errand[p].step \in {"post", "probe", "enable", "commit"} => errand[p].event \in DOMAIN orgEvent
    /\ bearer \in [Processes -> {"none", "early", "late"}]
    /\ org \in [exists : BOOLEAN, active : BOOLEAN, provisioned : BOOLEAN]
    /\ realm \in [exists : BOOLEAN, enabled : BOOLEAN]
    /\ hardship \in [faults : 0..MaxRealmFaults, revivals : Int]

(* What is done in a realm is done after it was made, and with a token     *)
(* that was minted since unless a call went wrong.                         *)
RealmsInv ==
    /\ RealmsTypes
    /\ org.provisioned => realm.exists
    /\ \A p \in Processes : errand[p].step \in {"probe", "enable", "commit", "apply"} => realm.exists
    /\ hardship.faults = MaxRealmFaults => \A p \in Processes : bearer[p] # "early"
    /\ QuietProvisioningNeverFails

LEMMA RealmsStart == RealmsInit => RealmsInv
<1> SUFFICES ASSUME RealmsInit PROVE RealmsInv
  OBVIOUS
<1>1. MaxRealmFaults \in Nat /\ MaxRevivals \in Nat
  BY RealmsAssumption
<1>2. orgEvent = << >> /\ << >> \in Seq(OrgEventRow) /\ Len(orgEvent) = 0
  BY DEF RealmsInit
<1>3. NoErrand \in ErrandRow /\ NoErrand.step = "idle"
  BY DEF NoErrand, ErrandRow
<1> QED BY <1>1, <1>2, <1>3 DEF RealmsInit, RealmsInv, RealmsTypes, ArrivalRow, QuietProvisioningNeverFails

LEMMA TokensAreKept ==
    ASSUME RealmsInv, NEW p \in Processes, Uses(p)
    PROVE  /\ bearer' \in [Processes -> {"none", "early", "late"}]
           /\ realm.exists /\ hardship.faults = MaxRealmFaults =>
                 Administers(p) /\ \A q \in Processes : bearer'[q] # "early"
BY DEF RealmsInv, RealmsTypes, Uses, TokenOf, Minted, Administers

LEMMA SpentRows ==
    /\ \A e \in OrgEventRow : Spent(e) \in OrgEventRow
    /\ \A e \in ArrivalRow : Spent(e) \in ArrivalRow
<1>1. ASSUME NEW e \in OrgEventRow PROVE Spent(e) \in OrgEventRow
  <2>1. PICK n \in Nat : n = e.attempts + 1
    BY DEF OrgEventRow
  <2>2. PICK s \in {"pending", "failed"} :
          Spent(e) = [e EXCEPT !.attempts = n, !.state = s]
    BY <2>1 DEF Spent
  <2> QED BY <2>1, <2>2 DEF OrgEventRow
<1>2. ASSUME NEW e \in ArrivalRow PROVE Spent(e) \in ArrivalRow
  <2>1. PICK n \in Nat : n = e.attempts + 1
    BY DEF ArrivalRow
  <2>2. PICK s \in {"pending", "failed"} :
          Spent(e) = [e EXCEPT !.attempts = n, !.state = s]
    BY <2>1 DEF Spent
  <2> QED BY <2>1, <2>2 DEF ArrivalRow
<1> QED BY <1>1, <1>2

(* What an attempt that fails leaves.                                      *)
LEMMA AttemptsFail ==
    ASSUME RealmsInv, NEW p \in Processes, errand[p].step \in {"post", "probe", "enable", "apply"},
           Fails(p)
    PROVE  /\ orgEvent' \in Seq(OrgEventRow) /\ DOMAIN orgEvent' = DOMAIN orgEvent
           /\ arrival' \in [Folk -> ArrivalRow]
           /\ errand' \in [Processes -> ErrandRow]
           /\ \A q \in Processes : errand'[q] = errand[q] \/ errand'[q].step = "idle"
<1>1. /\ errand \in [Processes -> ErrandRow] /\ orgEvent \in Seq(OrgEventRow)
      /\ arrival \in [Folk -> ArrivalRow]
  BY DEF RealmsInv, RealmsTypes
<1>2. NoErrand \in ErrandRow /\ NoErrand.step = "idle"
  BY DEF NoErrand, ErrandRow
<1>3. /\ errand' \in [Processes -> ErrandRow]
      /\ \A q \in Processes : errand'[q] = errand[q] \/ errand'[q].step = "idle"
  BY <1>1, <1>2 DEF Fails
<1>4. CASE errand[p].step = "apply"
  <2>1. PICK u \in Folk : u = errand[p].person
    BY <1>1, <1>4 DEF ErrandRow
  <2>2. Spent(arrival[u]) \in ArrivalRow
    BY <1>1, SpentRows
  <2> QED BY <1>1, <1>3, <1>4, <2>1, <2>2 DEF Fails
<1>5. CASE errand[p].step # "apply"
  <2>1. PICK i \in DOMAIN orgEvent : i = errand[p].event
    BY <1>5 DEF RealmsInv, RealmsTypes
  <2>2. orgEvent[i] \in OrgEventRow
    BY <1>1
  <2>3. Spent(orgEvent[i]) \in OrgEventRow
    BY <2>2, SpentRows
  <2> QED BY <1>1, <1>3, <1>5, <2>1, <2>3 DEF Fails
<1> QED BY <1>4, <1>5

LEMMA OperatorsMove ==
    ASSUME RealmsInv,
           \/ CreateOrganization \/ SetStatus
           \/ \E u \in Folk : AddPerson(u)
           \/ \E i \in 1..Len(orgEvent) : ReviveOrg(i)
    PROVE  RealmsInv'
<1>1. Fresh \in OrgEventRow /\ Fresh.attempts = 0
  BY DEF Fresh, OrgEventRow
<1>2. CASE CreateOrganization \/ SetStatus
  <2>1. orgEvent' = Append(orgEvent, Fresh) /\ UNCHANGED <<realm, bearer, arrival, errand, hardship>>
    BY <1>2 DEF CreateOrganization, SetStatus, OrgQueued
  <2>2. org' \in [exists : BOOLEAN, active : BOOLEAN, provisioned : BOOLEAN]
        /\ org'.provisioned = org.provisioned
    BY <1>2 DEF CreateOrganization, SetStatus, RealmsInv, RealmsTypes
  <2>3. /\ orgEvent' \in Seq(OrgEventRow) /\ DOMAIN orgEvent \subseteq DOMAIN orgEvent'
        /\ \A i \in 1..Len(orgEvent') :
              (i \in 1..Len(orgEvent) /\ orgEvent'[i] = orgEvent[i]) \/ orgEvent'[i] = Fresh
    BY <1>1, <2>1 DEF RealmsInv, RealmsTypes
  <2>4. QuietProvisioningNeverFails'
    BY <1>1, <2>1, <2>3 DEF RealmsInv, QuietProvisioningNeverFails
  <2> QED BY <2>1, <2>2, <2>3, <2>4 DEF RealmsInv, RealmsTypes
<1>3. ASSUME NEW u \in Folk, AddPerson(u) PROVE RealmsInv'
  <2>1. UNCHANGED <<org, orgEvent, realm, bearer, errand, hardship>>
    BY <1>3 DEF AddPerson
  <2>2. arrival' \in [Folk -> ArrivalRow] /\ \A t \in Folk : arrival'[t].attempts = arrival[t].attempts
    BY <1>3 DEF AddPerson, RealmsInv, RealmsTypes, ArrivalRow
  <2> QED BY <2>1, <2>2 DEF RealmsInv, RealmsTypes, QuietProvisioningNeverFails
<1>4. ASSUME NEW i \in 1..Len(orgEvent), ReviveOrg(i) PROVE RealmsInv'
  <2>1. /\ UNCHANGED <<org, realm, bearer, arrival, errand>>
        /\ hardship' \in [faults : 0..MaxRealmFaults, revivals : Int]
        /\ hardship'.faults = hardship.faults
    BY <1>4 DEF ReviveOrg, RealmsInv, RealmsTypes
  <2>2. /\ orgEvent' \in Seq(OrgEventRow) /\ DOMAIN orgEvent' = DOMAIN orgEvent
        /\ Len(orgEvent') = Len(orgEvent)
        /\ \A k \in 1..Len(orgEvent) : orgEvent'[k] = IF k = i THEN Fresh ELSE orgEvent[k]
    BY <1>1, <1>4 DEF ReviveOrg, RealmsInv, RealmsTypes
  <2> QED BY <1>1, <2>1, <2>2 DEF RealmsInv, RealmsTypes, QuietProvisioningNeverFails
<1> QED BY <1>2, <1>3, <1>4

(* A step of an errand that does not fail.                                 *)
LEMMA ErrandsGoOn ==
    ASSUME RealmsInv, NEW p \in Processes, errand[p].step \in {"post", "probe", "enable"},
           NEW to \in {"probe", "enable", "commit"}, Moves(p, to)
    PROVE  /\ UNCHANGED <<orgEvent, arrival>>
           /\ errand' \in [Processes -> ErrandRow]
           /\ \A q \in Processes : \/ errand'[q] = errand[q]
                                   \/ errand'[q].step = to /\ errand'[q].event \in DOMAIN orgEvent
<1>1. errand[p] \in [step : {"post", "probe", "enable", "commit"}, event : Nat, active : BOOLEAN]
  BY DEF RealmsInv, RealmsTypes, ErrandRow
<1>2. PICK e : e = [errand[p] EXCEPT !.step = to]
  OBVIOUS
<1>3. e \in ErrandRow /\ e.step = to /\ e.event = errand[p].event
  BY <1>1, <1>2 DEF ErrandRow
<1>4. errand' = [errand EXCEPT ![p] = e] /\ errand[p].event \in DOMAIN orgEvent
  BY <1>2 DEF Moves, RealmsInv, RealmsTypes
<1> QED BY <1>3, <1>4 DEF Moves, RealmsInv, RealmsTypes

LEMMA ClaimsMove ==
    ASSUME RealmsInv, NEW p \in Processes,
           (\E i \in 1..Len(orgEvent) : ClaimOrg(p, i)) \/ (\E u \in Folk : ClaimArrival(p, u))
    PROVE  RealmsInv'
<1>1. PICK e \in ErrandRow :
        /\ errand' = [errand EXCEPT ![p] = e]
        /\ \/ e.step = "post" /\ e.event \in DOMAIN orgEvent
           \/ e.step = "apply" /\ org.provisioned
        /\ UNCHANGED <<org, orgEvent, realm, bearer, arrival, hardship>>
  <2>1. ASSUME NEW i \in 1..Len(orgEvent), ClaimOrg(p, i)
        PROVE  \E e \in ErrandRow :
                  /\ errand' = [errand EXCEPT ![p] = e]
                  /\ e.step = "post" /\ e.event \in DOMAIN orgEvent
    <3> DEFINE e == [step |-> "post", event |-> i, active |-> org.active]
    <3>1. e \in ErrandRow /\ i \in DOMAIN orgEvent
      BY DEF ErrandRow, RealmsInv, RealmsTypes
    <3>2. errand' = [errand EXCEPT ![p] = e]
      BY <2>1 DEF ClaimOrg
    <3> QED BY <3>1, <3>2
  <2>2. ASSUME NEW u \in Folk, ClaimArrival(p, u)
        PROVE  \E e \in ErrandRow : errand' = [errand EXCEPT ![p] = e] /\ e.step = "apply"
    <3> DEFINE e == [step |-> "apply", person |-> u]
    <3>1. e \in ErrandRow
      BY DEF ErrandRow
    <3>2. errand' = [errand EXCEPT ![p] = e]
      BY <2>2 DEF ClaimArrival
    <3> QED BY <3>1, <3>2
  <2> QED BY <2>1, <2>2 DEF ClaimOrg, ClaimArrival
<1>2. \A q \in Processes : errand'[q] = IF q = p THEN e ELSE errand[q]
  BY <1>1 DEF RealmsInv, RealmsTypes
<1>3. RealmsTypes'
  BY <1>1, <1>2 DEF RealmsInv, RealmsTypes
<1> QED BY <1>1, <1>2, <1>3 DEF RealmsInv, QuietProvisioningNeverFails

LEMMA RealmsArePosted ==
    ASSUME RealmsInv, NEW p \in Processes, PostRealm(p)
    PROVE  RealmsInv'
<1>1. UNCHANGED <<org, hardship>> /\ errand[p].step = "post"
  BY DEF PostRealm
<1>2. CASE realm.exists
  <2>1. Uses(p) /\ Moves(p, "probe") /\ realm' = realm
    BY <1>2 DEF PostRealm
  <2>2. /\ UNCHANGED <<orgEvent, arrival>> /\ errand' \in [Processes -> ErrandRow]
        /\ \A q \in Processes : \/ errand'[q] = errand[q]
                                \/ errand'[q].step = "probe" /\ errand'[q].event \in DOMAIN orgEvent
    BY <1>1, <2>1, ErrandsGoOn
  <2>3. RealmsTypes'
    BY <1>1, <2>1, <2>2, TokensAreKept DEF RealmsInv, RealmsTypes
  <2> QED BY <1>1, <1>2, <2>1, <2>2, <2>3, TokensAreKept DEF RealmsInv, QuietProvisioningNeverFails
<1>3. CASE ~realm.exists
  <2>1. /\ bearer' = [bearer EXCEPT ![p] = "none"] /\ Moves(p, "enable") /\ realm'.exists
        /\ realm' \in [exists : BOOLEAN, enabled : BOOLEAN]
    <3>1. [exists |-> TRUE, enabled |-> TRUE] \in [exists : BOOLEAN, enabled : BOOLEAN]
      OBVIOUS
    <3> QED BY <1>3, <3>1 DEF PostRealm
  <2>2. /\ UNCHANGED <<orgEvent, arrival>> /\ errand' \in [Processes -> ErrandRow]
        /\ \A q \in Processes : \/ errand'[q] = errand[q]
                                \/ errand'[q].step = "enable" /\ errand'[q].event \in DOMAIN orgEvent
    BY <1>1, <2>1, ErrandsGoOn
  <2>3. /\ bearer' \in [Processes -> {"none", "early", "late"}]
        /\ (\A q \in Processes : bearer[q] # "early") => \A q \in Processes : bearer'[q] # "early"
    BY <2>1 DEF RealmsInv, RealmsTypes
  <2>4. RealmsTypes'
    BY <1>1, <2>1, <2>2, <2>3 DEF RealmsInv, RealmsTypes
  <2> QED BY <1>1, <2>1, <2>2, <2>3, <2>4 DEF RealmsInv, QuietProvisioningNeverFails
<1> QED BY <1>2, <1>3

(* With a fault the budget is below what it was at first.                  *)
LEMMA FaultsAreFelt ==
    ASSUME RealmsInv, NEW p \in Processes,
           \/ PostIsLost(p) \/ CallFails(p) \/ ProcessDies(p)
    PROVE  RealmsInv'
<1>1. /\ hardship.faults > 0 /\ hardship' = [hardship EXCEPT !.faults = @ - 1] /\ UNCHANGED org
      /\ realm.exists => realm'.exists
      /\ realm' \in [exists : BOOLEAN, enabled : BOOLEAN]
  <2>1. [exists |-> TRUE, enabled |-> TRUE] \in [exists : BOOLEAN, enabled : BOOLEAN]
    OBVIOUS
  <2>2. realm' = realm \/ realm' = [exists |-> TRUE, enabled |-> TRUE]
    BY DEF PostIsLost, CallFails, ProcessDies
  <2>3. hardship.faults > 0 /\ hardship' = [hardship EXCEPT !.faults = @ - 1] /\ UNCHANGED org
    BY DEF PostIsLost, CallFails, ProcessDies
  <2> QED BY <2>1, <2>2, <2>3 DEF RealmsInv, RealmsTypes
<1>2. hardship' \in [faults : 0..MaxRealmFaults, revivals : Int] /\ hardship'.faults # MaxRealmFaults
  BY <1>1, RealmsAssumption DEF RealmsInv, RealmsTypes
<1>3. NoErrand \in ErrandRow /\ NoErrand.step = "idle"
  BY DEF NoErrand, ErrandRow
<1>4. bearer' \in [Processes -> {"none", "early", "late"}]
  BY DEF PostIsLost, CallFails, ProcessDies, Uses, TokenOf, Minted, RealmsInv, RealmsTypes
<1>5. /\ orgEvent' \in Seq(OrgEventRow) /\ DOMAIN orgEvent' = DOMAIN orgEvent
      /\ arrival' \in [Folk -> ArrivalRow]
      /\ errand' \in [Processes -> ErrandRow]
      /\ \A q \in Processes : errand'[q] = errand[q] \/ errand'[q].step = "idle"
  <2>1. CASE PostIsLost(p) \/ CallFails(p)
    BY <2>1, AttemptsFail DEF PostIsLost, CallFails
  <2>2. CASE ProcessDies(p)
    BY <1>3, <2>2 DEF ProcessDies, RealmsInv, RealmsTypes
  <2> QED BY <2>1, <2>2
<1>6. RealmsTypes'
  BY <1>1, <1>2, <1>4, <1>5 DEF RealmsInv, RealmsTypes
<1> QED BY <1>1, <1>2, <1>5, <1>6 DEF RealmsInv, QuietProvisioningNeverFails

(* In a realm that is there only a token kept since a fault is refused.    *)
LEMMA CallsArriveUnlessFaulted ==
    ASSUME RealmsInv, NEW p \in Processes, Probe(p) \/ SetRealmEnabled(p) \/ ApplyPerson(p)
    PROVE  RealmsInv'
<1>1. /\ UNCHANGED <<org, hardship>> /\ Uses(p)
      /\ errand[p].step \in {"probe", "enable", "apply"} /\ realm.exists
      /\ realm'.exists = realm.exists /\ realm' \in [exists : BOOLEAN, enabled : BOOLEAN]
  <2>1. errand[p].step \in {"probe", "enable", "apply"} /\ Uses(p) /\ UNCHANGED <<org, hardship>>
    BY DEF Probe, SetRealmEnabled, ApplyPerson
  <2>2. CASE SetRealmEnabled(p)
    <3>1. errand[p] \in ErrandRow /\ errand[p].step = "enable"
      BY <2>2 DEF SetRealmEnabled, RealmsInv, RealmsTypes
    <3>2. errand[p].active \in BOOLEAN
      BY <3>1 DEF ErrandRow
    <3>3. realm' = [realm EXCEPT !.enabled = errand[p].active] \/ realm' = realm
      BY <2>2 DEF SetRealmEnabled
    <3> QED BY <2>1, <3>2, <3>3 DEF RealmsInv, RealmsTypes
  <2>3. CASE Probe(p) \/ ApplyPerson(p)
    BY <2>1, <2>3 DEF Probe, ApplyPerson, RealmsInv, RealmsTypes
  <2> QED BY <2>2, <2>3
<1>2. bearer' \in [Processes -> {"none", "early", "late"}]
      /\ (hardship.faults = MaxRealmFaults =>
            Administers(p) /\ \A q \in Processes : bearer'[q] # "early")
  BY <1>1, TokensAreKept
<1>3. CASE ~Administers(p)
  <2>1. Fails(p)
    BY <1>3 DEF Probe, SetRealmEnabled, ApplyPerson
  <2>2. /\ orgEvent' \in Seq(OrgEventRow) /\ DOMAIN orgEvent' = DOMAIN orgEvent
        /\ arrival' \in [Folk -> ArrivalRow]
        /\ errand' \in [Processes -> ErrandRow]
        /\ \A q \in Processes : errand'[q] = errand[q] \/ errand'[q].step = "idle"
    BY <1>1, <2>1, AttemptsFail
  <2>3. RealmsTypes'
    BY <1>1, <1>2, <2>2 DEF RealmsInv, RealmsTypes
  <2> QED BY <1>1, <1>2, <1>3, <2>2, <2>3 DEF RealmsInv, QuietProvisioningNeverFails
<1>4. CASE Administers(p) /\ (Probe(p) \/ SetRealmEnabled(p))
  <2>1. PICK to \in {"enable", "commit"} : Moves(p, to)
    BY <1>4 DEF Probe, SetRealmEnabled
  <2>2. /\ UNCHANGED <<orgEvent, arrival>> /\ errand' \in [Processes -> ErrandRow]
        /\ \A q \in Processes : \/ errand'[q] = errand[q]
                                \/ errand'[q].step = to /\ errand'[q].event \in DOMAIN orgEvent
    BY <1>4, <2>1, ErrandsGoOn DEF Probe, SetRealmEnabled
  <2>3. RealmsTypes'
    BY <1>1, <1>2, <2>2 DEF RealmsInv, RealmsTypes
  <2> QED BY <1>1, <1>2, <2>2, <2>3 DEF RealmsInv, QuietProvisioningNeverFails
<1>5. CASE Administers(p) /\ ApplyPerson(p)
  <2>1. PICK u \in Folk : u = errand[p].person
    BY <1>5 DEF ApplyPerson, RealmsInv, RealmsTypes, ErrandRow
  <2>2. NoErrand \in ErrandRow /\ NoErrand.step = "idle"
    BY DEF NoErrand, ErrandRow
  <2>3. /\ UNCHANGED orgEvent /\ errand' = [errand EXCEPT ![p] = NoErrand]
        /\ arrival' = [arrival EXCEPT ![u] = [arrival[u] EXCEPT !.state = "done", !.account = TRUE]]
    BY <1>5, <2>1 DEF ApplyPerson
  <2>4. arrival' \in [Folk -> ArrivalRow] /\ \A t \in Folk : arrival'[t].attempts = arrival[t].attempts
    <3>1. arrival \in [Folk -> ArrivalRow]
      BY DEF RealmsInv, RealmsTypes
    <3>2. arrival[u] \in ArrivalRow
      BY <3>1
    <3>3. PICK a \in ArrivalRow :
             /\ a = [arrival[u] EXCEPT !.state = "done", !.account = TRUE]
             /\ a.attempts = arrival[u].attempts
      <4>1. PICK b \in ArrivalRow : b = arrival[u]
        BY <3>2
      <4>2. PICK c : c = [b EXCEPT !.state = "done", !.account = TRUE]
        OBVIOUS
      <4>3. c.attempts = b.attempts /\ c \in ArrivalRow
        BY ONLY <4>2, b \in ArrivalRow DEF ArrivalRow
      <4> QED BY <4>1, <4>2, <4>3
    <3>4. arrival' = [arrival EXCEPT ![u] = a]
      BY <2>3, <3>3
    <3> QED BY <3>1, <3>3, <3>4
  <2>5. /\ errand' \in [Processes -> ErrandRow]
        /\ \A q \in Processes : errand'[q] = errand[q] \/ errand'[q].step = "idle"
    BY <2>2, <2>3 DEF RealmsInv, RealmsTypes
  <2>6. RealmsTypes'
    BY <1>1, <1>2, <2>3, <2>4, <2>5 DEF RealmsInv, RealmsTypes
  <2> QED BY <1>1, <1>2, <2>3, <2>4, <2>5, <2>6 DEF RealmsInv, QuietProvisioningNeverFails
<1> QED BY <1>3, <1>4, <1>5

LEMMA OrganizationsAreProvisioned ==
    ASSUME RealmsInv, NEW p \in Processes, CommitOrg(p)
    PROVE  RealmsInv'
<1>1. PICK i \in DOMAIN orgEvent :
        /\ orgEvent' = [orgEvent EXCEPT ![i].state = "done"]
        /\ errand' = [errand EXCEPT ![p] = NoErrand] /\ UNCHANGED <<realm, arrival, hardship>>
        /\ org' = [org EXCEPT !.provisioned = TRUE] /\ realm.exists
  BY DEF CommitOrg, RealmsInv, RealmsTypes
<1>2. NoErrand \in ErrandRow /\ NoErrand.step = "idle"
  BY DEF NoErrand, ErrandRow
<1>3. /\ errand' \in [Processes -> ErrandRow]
      /\ \A q \in Processes : errand'[q] = errand[q] \/ errand'[q].step = "idle"
  BY <1>1, <1>2 DEF RealmsInv, RealmsTypes
<1>4. PICK e : e = [orgEvent[i] EXCEPT !.state = "done"]
  OBVIOUS
<1>5. e \in OrgEventRow /\ e.attempts = orgEvent[i].attempts
  <2>1. orgEvent[i] \in OrgEventRow
    BY DEF RealmsInv, RealmsTypes
  <2> QED BY <1>4, <2>1 DEF OrgEventRow
<1>6. /\ orgEvent' \in Seq(OrgEventRow) /\ DOMAIN orgEvent' = DOMAIN orgEvent
      /\ Len(orgEvent') = Len(orgEvent)
      /\ \A k \in 1..Len(orgEvent) : orgEvent'[k].attempts = orgEvent[k].attempts
  BY <1>1, <1>4, <1>5 DEF RealmsInv, RealmsTypes
<1>7. /\ bearer' \in [Processes -> {"none", "early", "late"}]
      /\ \A q \in Processes : bearer'[q] \in {bearer[q], "none"}
  BY DEF CommitOrg, RealmsInv, RealmsTypes
<1>8. org' \in [exists : BOOLEAN, active : BOOLEAN, provisioned : BOOLEAN]
  BY <1>1 DEF RealmsInv, RealmsTypes
<1>9. RealmsTypes'
  BY <1>1, <1>3, <1>6, <1>7, <1>8 DEF RealmsInv, RealmsTypes
<1> QED BY <1>1, <1>3, <1>6, <1>7, <1>9 DEF RealmsInv, QuietProvisioningNeverFails

LEMMA RealmsSteps == RealmsInv /\ [RealmsNext]_rvars => RealmsInv'
<1> SUFFICES ASSUME RealmsInv, [RealmsNext]_rvars PROVE RealmsInv'
  OBVIOUS
<1>1. CASE UNCHANGED rvars
  BY <1>1 DEF RealmsInv, RealmsTypes, QuietProvisioningNeverFails, rvars
<1>2. ASSUME NEW p \in Processes, TokenExpires(p)
      PROVE  RealmsInv'
  <2>1. UNCHANGED <<org, orgEvent, realm, arrival, errand, hardship>>
    BY <1>2 DEF TokenExpires
  <2>2. /\ bearer' \in [Processes -> {"none", "early", "late"}]
        /\ \A q \in Processes : bearer'[q] \in {bearer[q], "none"}
    BY <1>2 DEF TokenExpires, RealmsInv, RealmsTypes
  <2> QED BY <2>1, <2>2 DEF RealmsInv, RealmsTypes, QuietProvisioningNeverFails
<1>3. ASSUME NEW p \in Processes, DeliversOrg(p) \/ DeliversPerson(p)
      PROVE  RealmsInv'
  BY <1>3, ClaimsMove, RealmsArePosted, CallsArriveUnlessFaulted, OrganizationsAreProvisioned
     DEF DeliversOrg, DeliversPerson
<1>4. CASE RealmsNext
  BY <1>2, <1>3, <1>4, OperatorsMove, FaultsAreFelt DEF RealmsNext
<1> QED BY <1>1, <1>4

(* As long as nothing goes wrong no attempt fails, of the organization's   *)
(* event or of anybody's who waited for it: no process uses a token that   *)
(* was minted before the realm was there.                                  *)
THEOREM QuietProvisioningWorks == RealmsSpec => []QuietProvisioningNeverFails
<1>1. RealmsInv => QuietProvisioningNeverFails
  BY DEF RealmsInv
<1> QED BY <1>1, RealmsStart, RealmsSteps, PTL DEF RealmsSpec

-----------------------------------------------------------------------------
(* A directory reached request by request.                                 *)

AccountRow ==
    [user : Subjects, live : BOOLEAN, attrs : [AttrKeys -> AttrValues \cup {NoAttr}], enabled : BOOLEAN]

GroupRow == [name : Names, email : {EmailOf[n] : n \in Names}, members : SUBSET Nat]

JobRow ==
    [at : {"find", "write", "enable", "ensure", "create", "read", "members"}, want : Want,
     ext : Nat \cup {NoId}, id : Nat \cup {NoId}, seen : AccountRow \cup {NoAttr},
     todo : SUBSET Names, ids : SUBSET Nat, creating : Names \cup {NoAttr},
     add : SUBSET Nat, drop : SUBSET Nat]

DirTypes ==
    /\ kind \in AllKinds /\ wanted \in [Subjects -> Want]
    /\ pending \subseteq Subjects /\ touched \subseteq Subjects
    /\ link \in [Subjects -> Nat \cup {NoId}]
    /\ job \in [Subjects -> JobRow \cup {NoJob}]
    /\ accounts \in Seq(AccountRow) /\ groups \in Seq(GroupRow)

IsAccountOf(i, p) == i \in Ids /\ accounts[i].user = p

(* Nobody's id is another's account, and nobody has two.                   *)
OwnAccounts ==
    /\ \A p \in Subjects :
          /\ link[p] # NoId => IsAccountOf(link[p], p)
          /\ job[p] # NoJob =>
                /\ job[p].ext # NoId => IsAccountOf(job[p].ext, p)
                /\ job[p].id # NoId => IsAccountOf(job[p].id, p)
                /\ job[p].at = "write" /\ job[p].id # NoId => job[p].seen \in AccountRow
                /\ job[p].at = "create" => job[p].creating \in Names
                /\ job[p].ids \cup job[p].add \cup job[p].drop \subseteq DOMAIN groups
    /\ \A i, k \in Ids : Live(i) /\ Live(k) /\ accounts[i].user = accounts[k].user => i = k

JobsReadLast ==
    \A p \in Subjects : job[p] # NoJob /\ p \notin pending => job[p].want = wanted[p]

(* Connectors other than SCIM: a group of each name that is not to do, and *)
(* then what of it the account is still to join and what to leave.         *)
Collected(j) ==
    /\ j.todo \subseteq j.want.groups
    /\ j.ids \subseteq UNION {Found(n) : n \in j.want.groups}
    /\ \A n \in j.want.groups \ j.todo : j.ids \cap Found(n) # {}
    /\ j.at = "members" =>
          /\ j.todo = {} /\ j.add \subseteq j.ids /\ j.drop \cap j.ids = {}
          /\ j.ids \ j.add \subseteq GroupsOf(j.id) /\ GroupsOf(j.id) \subseteq j.ids \cup j.drop

(* SCIM: what is not to do is being joined, or was found among the account's *)
(* groups, and what is left over has no wanted name.                       *)
Joined(j) ==
    /\ \A g \in j.drop : groups[g].name \notin j.want.groups
    /\ \A g \in GroupsOf(j.id) : g \in j.drop \/ groups[g].name \in j.want.groups
    /\ \A n \in j.want.groups : \/ n \in j.todo
                                \/ \E g \in j.add \cup GroupsOf(j.id) : groups[g].name = n
    /\ \A g \in j.add : groups[g].name \in j.want.groups
    /\ j.todo \subseteq j.want.groups
    /\ j.at # "members" => j.add = {}
    /\ j.at = "members" /\ j.add = {} => j.todo = {}
    /\ \A g, h \in j.add : g = h

JobWell(p) ==
    LET j == job[p]
    IN /\ j.at \in {"find", "write", "read"} => j.ids = {} /\ j.add = {} /\ j.drop = {}
       /\ j.at = "write" /\ j.id # NoId => Live(j.id) /\ j.seen = accounts[j.id]
       /\ j.at \in {"enable", "ensure", "create", "read", "members"} =>
             /\ j.id # NoId /\ Live(j.id) /\ ~ProfileDiffers(accounts[j.id], j.want)
             /\ j.at # "enable" => accounts[j.id].enabled = j.want.enabled
       /\ j.at = "create" => j.creating \in j.todo
       /\ j.at = "enable" => ~Scim
       /\ j.at = "read" => Scim
       /\ j.at \in {"enable", "ensure", "create", "members"} => IF Scim THEN Joined(j) ELSE Collected(j)

Shown(p) ==
    LeftAlone(p) =>
        /\ Live(link[p]) /\ accounts[link[p]].user = p
        /\ accounts[link[p]].enabled = wanted[p].enabled
        /\ ~ProfileDiffers(accounts[link[p]], wanted[p])
        /\ BelongsAsWanted(link[p], wanted[p])

GoesWell(p) ==
    p \notin touched => (job[p] # NoJob => JobWell(p)) /\ Shown(p)

DirInv ==
    /\ DirTypes /\ OwnAccounts /\ JobsReadLast
    /\ \A p \in Subjects : GoesWell(p)

(* A step of p's job, or at p's account, leaves the others' accounts, and  *)
(* which groups they are in.                                               *)
AccountsKept(p) ==
    /\ accounts' \in Seq(AccountRow) /\ Ids \subseteq Ids'
    /\ \A i \in Ids : /\ accounts'[i].user = accounts[i].user
                      /\ accounts[i].user # p => accounts'[i] = accounts[i]
    /\ \A i \in Ids' \ Ids : accounts'[i].user = p
    /\ \A i, k \in Ids' : accounts'[i].live /\ accounts'[k].live
          /\ accounts'[i].user = p /\ accounts'[k].user = p => i = k

GroupsKept(p) ==
    /\ groups' \in Seq(GroupRow) /\ DOMAIN groups \subseteq DOMAIN groups'
    /\ \A g \in DOMAIN groups : /\ groups'[g].name = groups[g].name
                                /\ groups'[g].email = groups[g].email
    /\ \A g \in DOMAIN groups' : \A i \in Ids :
          accounts[i].user # p =>
              (i \in groups'[g].members <=> g \in DOMAIN groups /\ i \in groups[g].members)

LEMMA NothingTouched ==
    ASSUME DirInv, NEW p \in Subjects
    PROVE  /\ UNCHANGED accounts => AccountsKept(p)
           /\ UNCHANGED groups => GroupsKept(p)
<1>1. ASSUME UNCHANGED accounts PROVE AccountsKept(p)
  BY <1>1 DEF AccountsKept, DirInv, DirTypes, OwnAccounts, Live, Ids
<1>2. ASSUME UNCHANGED groups PROVE GroupsKept(p)
  BY <1>2 DEF GroupsKept, DirInv, DirTypes
<1> QED BY <1>1, <1>2

LEMMA JobsAreNoJob == NoJob \notin JobRow /\ NoJob.at = "idle" /\ \A j \in JobRow : j.at # "idle"
BY DEF NoJob, JobRow

LEMMA DirStart == DirectoriesInit => DirInv
<1> SUFFICES ASSUME DirectoriesInit PROVE DirInv
  OBVIOUS
<1>1. kind \in AllKinds /\ wanted \in [Subjects -> Want]
  BY DirectoriesAssumption DEF DirectoriesInit
<1>2. accounts \in Seq(AccountRow) /\ accounts = << >> /\ DOMAIN accounts = {}
  BY DEF DirectoriesInit
<1>3. groups \in Seq(GroupRow)
  <2>1. groups \in Seq([name : Names, email : {EmailOf[n] : n \in Names}, members : {{}}])
    BY DirectoriesAssumption DEF DirectoriesInit
  <2>2. [name : Names, email : {EmailOf[n] : n \in Names}, members : {{}}] \subseteq GroupRow
    BY DEF GroupRow
  <2> QED BY <2>1, <2>2, SeqMonotonic
<1>4. \A p \in Subjects : job[p] = NoJob /\ p \in pending /\ link[p] = NoId
  BY DEF DirectoriesInit
<1>5. DirTypes
  BY <1>1, <1>2, <1>3 DEF DirectoriesInit, DirTypes
<1>6. OwnAccounts
  BY <1>2, <1>4 DEF OwnAccounts, Ids
<1>7. JobsReadLast /\ \A p \in Subjects : GoesWell(p)
  BY <1>4 DEF JobsReadLast, GoesWell, Shown, LeftAlone
<1> QED BY <1>5, <1>6, <1>7 DEF DirInv

(* Whom nobody touches: the job goes as well as before, and what is shown  *)
(* stays shown.                                                            *)
LEMMA OthersGoWell ==
    ASSUME DirInv, NEW p \in Subjects, NEW q \in Subjects, q # p,
           AccountsKept(p), GroupsKept(p), UNCHANGED kind,
           job'[q] = job[q], link'[q] = link[q], wanted'[q] = wanted[q],
           q \in pending' <=> q \in pending, q \in touched' <=> q \in touched
    PROVE  GoesWell(q)'
<1>1. ASSUME NEW i, IsAccountOf(i, q)
      PROVE  /\ Live(i) <=> Live(i)'
             /\ i \in Ids' /\ accounts'[i] = accounts[i]
             /\ GroupsOf(i)' = GroupsOf(i)
  <2>1. i \in Ids /\ i \in Ids' /\ accounts[i].user # p /\ accounts'[i] = accounts[i]
    BY <1>1 DEF IsAccountOf, AccountsKept
  <2>2. GroupsOf(i)' = GroupsOf(i)
    BY <2>1 DEF GroupsOf, GroupsKept
  <2> QED BY <2>1, <2>2 DEF Live
<1>2. ASSUME NEW n PROVE Found(n) \subseteq Found(n)' /\ Found(n) \subseteq DOMAIN groups
  BY DEF Found, Addressed, Called, GroupsKept
<1>3. ASSUME q \notin touched, job[q] # NoJob, JobWell(q) PROVE JobWell(q)'
  <2> DEFINE j == job[q]
  <2>1. j \in JobRow /\ job'[q] = j /\ (j.id # NoId => IsAccountOf(j.id, q))
        /\ j.ids \cup j.add \cup j.drop \subseteq DOMAIN groups
    BY <1>3 DEF DirInv, DirTypes, OwnAccounts
  <2>2. Scim' <=> Scim
    BY DEF Scim
  <2>3. CASE j.id = NoId
    BY <1>3, <2>1, <2>2, <2>3 DEF JobWell
  <2>4. CASE j.id # NoId
    <3>1. /\ Live(j.id) <=> Live(j.id)'
          /\ j.id \in Ids' /\ accounts'[j.id] = accounts[j.id]
          /\ GroupsOf(j.id)' = GroupsOf(j.id)
      BY <1>1, <2>1, <2>4
    <3>2. Collected(j) => Collected(j)'
      BY <1>2, <2>1, <3>1 DEF Collected
    <3>3. Joined(j) => Joined(j)'
      BY <2>1, <3>1 DEF Joined, GroupsKept, GroupsOf
    <3>4. ProfileDiffers(accounts[j.id], j.want)' <=> ProfileDiffers(accounts[j.id], j.want)
      BY <2>1, <3>1 DEF ProfileDiffers
    <3> QED BY <1>3, <2>1, <2>2, <3>1, <3>2, <3>3, <3>4 DEF JobWell
  <2> QED BY <2>3, <2>4
<1>4. ASSUME Shown(q) PROVE Shown(q)'
  <2>1. LeftAlone(q)' => LeftAlone(q)
    BY DEF LeftAlone
  <2>2. CASE LeftAlone(q)
    <3>1. IsAccountOf(link[q], q)
      BY <1>4, <2>2 DEF Shown, Live, IsAccountOf
    <3>2. /\ Live(link[q])' /\ accounts'[link'[q]] = accounts[link[q]]
          /\ GroupsOf(link[q])' = GroupsOf(link[q])
      BY <1>1, <1>4, <2>2, <3>1 DEF Shown
    <3>3. BelongsAsWanted(link[q], wanted[q])'
      BY <1>2, <1>4, <2>2, <3>2 DEF Shown, BelongsAsWanted
    <3> QED BY <1>4, <2>2, <3>1, <3>2, <3>3 DEF Shown, ProfileDiffers
  <2>3. CASE ~LeftAlone(q)
    BY <2>1, <2>3 DEF Shown
  <2> QED BY <2>2, <2>3
<1> QED BY <1>3, <1>4 DEF DirInv, GoesWell

(* A step of p's job.                                                      *)
LEMMA JobsGoOn ==
    ASSUME DirInv, NEW p \in Subjects, NEW j \in JobRow, job[p] # NoJob,
           job' = [job EXCEPT ![p] = j], j.want = job[p].want, j.ext = job[p].ext,
           UNCHANGED <<kind, wanted, pending, link, touched>>,
           AccountsKept(p), GroupsKept(p),
           j.id # NoId => IsAccountOf(j.id, p)',
           j.at = "write" /\ j.id # NoId => j.seen \in AccountRow,
           j.at = "create" => j.creating \in Names,
           j.ids \cup j.add \cup j.drop \subseteq DOMAIN groups',
           p \notin touched => JobWell(p)'
    PROVE  DirInv'
<1>1. \A q \in Subjects : job'[q] = IF q = p THEN j ELSE job[q]
  BY DEF DirInv, DirTypes
<1>2. DirTypes'
  BY DEF DirInv, DirTypes, AccountsKept, GroupsKept
<1>3. OwnAccounts'
  <2>1. ASSUME NEW i, NEW q \in Subjects, IsAccountOf(i, q) PROVE IsAccountOf(i, q)'
    BY <2>1 DEF IsAccountOf, AccountsKept
  <2>2. ASSUME NEW q \in Subjects
        PROVE  /\ link'[q] # NoId => IsAccountOf(link[q], q)'
               /\ job'[q] # NoJob =>
                     /\ job'[q].ext # NoId => IsAccountOf(job[q].ext, q)'
                     /\ job'[q].id # NoId => IsAccountOf(job[q].id, q)'
                     /\ job'[q].at = "write" /\ job'[q].id # NoId => job'[q].seen \in AccountRow
                     /\ job'[q].at = "create" => job'[q].creating \in Names
                     /\ job'[q].ids \cup job'[q].add \cup job'[q].drop \subseteq DOMAIN groups'
    <3>1. link'[q] # NoId => IsAccountOf(link[q], q)'
      BY <2>1 DEF DirInv, OwnAccounts, IsAccountOf
    <3>2. CASE q = p
      BY <1>1, <2>1, <3>1, <3>2 DEF DirInv, OwnAccounts, IsAccountOf
    <3>3. CASE q # p
      <4>1. job'[q] = job[q]
        BY <1>1, <3>3
      <4> QED BY <2>1, <3>1, <4>1 DEF DirInv, OwnAccounts, IsAccountOf, GroupsKept
    <3> QED BY <3>2, <3>3
  <2>3. ASSUME NEW i \in Ids', NEW k \in Ids', Live(i)', Live(k)', accounts'[i].user = accounts'[k].user
        PROVE  i = k
    <3>1. CASE accounts'[i].user = p
      BY <2>3, <3>1 DEF AccountsKept, Live
    <3>2. CASE accounts'[i].user # p
      <4>1. i \in Ids /\ k \in Ids
        BY <2>3, <3>2 DEF AccountsKept
      <4>2. accounts'[i] = accounts[i] /\ accounts'[k] = accounts[k]
        BY <2>3, <3>2, <4>1 DEF AccountsKept
      <4> QED BY <2>3, <4>1, <4>2 DEF DirInv, OwnAccounts, Live
    <3> QED BY <3>1, <3>2
  <2> QED BY <2>2, <2>3 DEF OwnAccounts
<1>4. JobsReadLast'
  BY <1>1 DEF DirInv, JobsReadLast
<1>5. ASSUME NEW q \in Subjects PROVE GoesWell(q)'
  <2>1. CASE q = p
    <3>1. job'[p] # NoJob
      BY <1>1, JobsAreNoJob
    <3> QED BY <2>1, <3>1 DEF GoesWell, Shown, LeftAlone
  <2>2. CASE q # p
    <3>1. job'[q] = job[q]
      BY <1>1, <2>2
    <3> QED BY <2>2, <3>1, OthersGoWell
  <2> QED BY <2>1, <2>2
<1> QED BY <1>2, <1>3, <1>4, <1>5 DEF DirInv

LEMMA JobsOfRows ==
    ASSUME DirInv, NEW p \in Subjects, job[p].at # "idle"
    PROVE  job[p] \in JobRow /\ job[p] # NoJob
BY JobsAreNoJob DEF DirInv, DirTypes

LEMMA JobsStart ==
    ASSUME DirInv, NEW p \in Subjects, StartJob(p)
    PROVE  DirInv'
<1>1. PICK j : j = [at |-> "find", want |-> wanted[p], ext |-> link[p], id |-> NoId, seen |-> NoAttr,
                    todo |-> {}, ids |-> {}, creating |-> NoAttr, add |-> {}, drop |-> {}]
  OBVIOUS
<1>2. /\ j \in JobRow /\ j.at = "find" /\ j.want = wanted[p] /\ j.ext = link[p] /\ j.id = NoId
      /\ j.ids = {} /\ j.add = {} /\ j.drop = {}
  BY <1>1 DEF DirInv, DirTypes, JobRow
<1>3. /\ job' = [job EXCEPT ![p] = j] /\ pending' = pending \ {p} /\ touched' = touched \ {p}
      /\ UNCHANGED <<kind, wanted, link, accounts, groups>>
  BY <1>1 DEF StartJob
<1>4. \A q \in Subjects : job'[q] = IF q = p THEN j ELSE job[q]
  BY <1>3 DEF DirInv, DirTypes
<1>5. DirTypes'
  BY <1>2, <1>3 DEF DirInv, DirTypes
<1>6. OwnAccounts'
  BY <1>2, <1>3, <1>4 DEF DirInv, OwnAccounts, IsAccountOf, Ids, Live
<1>7. JobsReadLast'
  BY <1>2, <1>3, <1>4 DEF DirInv, JobsReadLast
<1>8. ASSUME NEW q \in Subjects PROVE GoesWell(q)'
  <2>1. CASE q = p
    <3>1. job'[p] = j /\ j # NoJob
      BY <1>2, <1>4, JobsAreNoJob
    <3>2. JobWell(p)'
      BY <1>2, <3>1 DEF JobWell
    <3> QED BY <2>1, <3>1, <3>2 DEF GoesWell, Shown, LeftAlone
  <2>2. CASE q # p
    BY <1>3, <1>4, <2>2, NothingTouched, OthersGoWell
  <2> QED BY <2>1, <2>2
<1> QED BY <1>5, <1>6, <1>7, <1>8 DEF DirInv

(* A failed job leaves an event behind.                                    *)
LEMMA JobsFail ==
    ASSUME DirInv, NEW p \in Subjects, FailJob(p)
    PROVE  DirInv'
<1>1. /\ job' = [job EXCEPT ![p] = NoJob] /\ pending' = pending \cup {p}
      /\ UNCHANGED <<kind, wanted, link, accounts, groups, touched>>
  BY DEF FailJob
<1>2. \A q \in Subjects : job'[q] = IF q = p THEN NoJob ELSE job[q]
  BY <1>1 DEF DirInv, DirTypes
<1>3. DirTypes'
  BY <1>1 DEF DirInv, DirTypes
<1>4. OwnAccounts'
  BY <1>1, <1>2 DEF DirInv, OwnAccounts, IsAccountOf, Ids, Live
<1>5. JobsReadLast'
  BY <1>1, <1>2 DEF DirInv, JobsReadLast
<1>6. ASSUME NEW q \in Subjects PROVE GoesWell(q)'
  <2>1. CASE q = p
    BY <1>1, <1>2, <2>1 DEF GoesWell, Shown, LeftAlone
  <2>2. CASE q # p
    BY <1>1, <1>2, <2>2, NothingTouched, OthersGoWell
  <2> QED BY <2>1, <2>2
<1> QED BY <1>3, <1>4, <1>5, <1>6 DEF DirInv

LEMMA RowsAreChanged ==
    ASSUME DirInv, NEW p \in Subjects, EditPerson(p)
    PROVE  DirInv'
<1>1. /\ pending' = pending \cup {p} /\ UNCHANGED <<kind, link, job, accounts, groups, touched>>
      /\ wanted' \in [Subjects -> Want] /\ \A q \in Subjects : q # p => wanted'[q] = wanted[q]
  BY DirectoriesAssumption DEF EditPerson, DirInv, DirTypes
<1>2. DirTypes'
  BY <1>1 DEF DirInv, DirTypes
<1>3. OwnAccounts'
  BY <1>1 DEF DirInv, OwnAccounts, IsAccountOf, Ids, Live
<1>4. JobsReadLast'
  BY <1>1 DEF DirInv, JobsReadLast
<1>5. ASSUME NEW q \in Subjects PROVE GoesWell(q)'
  <2>1. CASE q = p
    <3>1. ~LeftAlone(p)'
      BY <1>1 DEF LeftAlone
    <3>2. JobWell(p) => JobWell(p)'
      BY <1>1 DEF JobWell, Live, Ids, ProfileDiffers, Scim, Joined, Collected, GroupsOf, Found,
                  Called, Addressed
    <3> QED BY <1>1, <2>1, <3>1, <3>2 DEF DirInv, GoesWell, Shown
  <2>2. CASE q # p
    BY <1>1, <2>2, NothingTouched, OthersGoWell
  <2> QED BY <2>1, <2>2
<1> QED BY <1>2, <1>3, <1>4, <1>5 DEF DirInv

(* Whose account an administrator touches counts as touched.               *)
LEMMA TargetsAreMeddledWith ==
    ASSUME DirInv, NEW p \in Subjects, MeddleWithTarget(p)
    PROVE  DirInv'
<1>1. /\ UNCHANGED <<kind, wanted, pending, link, job>> /\ touched' = touched \cup {p}
  BY DEF MeddleWithTarget
<1>2. PICK i \in AccountsOf(p) :
         \/ /\ accounts' = [accounts EXCEPT ![i].live = FALSE]
            /\ groups' = [g \in DOMAIN groups |-> [groups[g] EXCEPT !.members = @ \ {i}]]
         \/ /\ \E k \in Foreign, v \in AttrValues : accounts' = [accounts EXCEPT ![i].attrs[k] = v]
            /\ UNCHANGED groups
         \/ /\ \E g \in DOMAIN groups \ GroupsOf(i) : groups' = [groups EXCEPT ![g].members = @ \cup {i}]
            /\ UNCHANGED accounts
  BY DEF MeddleWithTarget
<1>3. i \in Ids /\ accounts[i].user = p /\ accounts[i].live /\ i \in Nat /\ accounts[i] \in AccountRow
  BY DEF AccountsOf, Live, Ids, DirInv, DirTypes
<1>4. PICK a \in AccountRow : accounts' = [accounts EXCEPT ![i] = a] /\ a.user = p
  <2>1. CASE accounts' = [accounts EXCEPT ![i].live = FALSE]
    <3> DEFINE a == [accounts[i] EXCEPT !.live = FALSE]
    <3>1. a \in AccountRow /\ a.user = p
      BY <1>3 DEF AccountRow
    <3> QED BY <2>1, <3>1
  <2>2. ASSUME NEW k \in Foreign, NEW v \in AttrValues, accounts' = [accounts EXCEPT ![i].attrs[k] = v]
        PROVE  \E a \in AccountRow : accounts' = [accounts EXCEPT ![i] = a] /\ a.user = p
    <3> DEFINE a == [accounts[i] EXCEPT !.attrs[k] = v]
    <3>1. a \in AccountRow /\ a.user = p
      BY <1>3 DEF AccountRow, AttrKeys
    <3> QED BY <2>2, <3>1
  <2>3. CASE UNCHANGED accounts
    <3>1. accounts = [accounts EXCEPT ![i] = accounts[i]]
      BY <1>3 DEF DirInv, DirTypes
    <3> QED BY <1>3, <2>3, <3>1
  <2> QED BY <1>2, <2>1, <2>2, <2>3
<1>5. /\ accounts' \in Seq(AccountRow) /\ DOMAIN accounts' = DOMAIN accounts
      /\ \A k \in DOMAIN accounts : accounts'[k] = IF k = i THEN a ELSE accounts[k]
  BY <1>3, <1>4 DEF DirInv, DirTypes, Ids
<1>6. AccountsKept(p)
  <2>1. \A k \in Ids : accounts'[k].live /\ accounts'[k].user = p => k = i
    BY <1>3, <1>5 DEF DirInv, OwnAccounts, Live, Ids
  <2> QED BY <1>3, <1>4, <1>5, <2>1 DEF AccountsKept, Ids
<1>7. GroupsKept(p)
  <2>1. CASE groups' = [g \in DOMAIN groups |-> [groups[g] EXCEPT !.members = @ \ {i}]]
    <3>1. \A g \in DOMAIN groups : groups[g] \in GroupRow
      BY DEF DirInv, DirTypes
    <3>2. \A g \in DOMAIN groups :
             /\ [groups[g] EXCEPT !.members = @ \ {i}] \in GroupRow
             /\ [groups[g] EXCEPT !.members = @ \ {i}].name = groups[g].name
             /\ [groups[g] EXCEPT !.members = @ \ {i}].email = groups[g].email
             /\ [groups[g] EXCEPT !.members = @ \ {i}].members = groups[g].members \ {i}
      BY <3>1 DEF GroupRow
    <3>3. PICK n \in Nat : DOMAIN groups = 1..n
      BY DEF DirInv, DirTypes
    <3>4. groups' \in Seq(GroupRow) /\ DOMAIN groups' = DOMAIN groups
      BY <2>1, <3>2, <3>3
    <3> QED BY <1>3, <2>1, <3>2, <3>4 DEF GroupsKept
  <2>2. ASSUME NEW g \in DOMAIN groups, groups' = [groups EXCEPT ![g].members = @ \cup {i}]
        PROVE  GroupsKept(p)
    <3>1. PICK r : r = [groups[g] EXCEPT !.members = @ \cup {i}]
      OBVIOUS
    <3>2. /\ r \in GroupRow /\ r.name = groups[g].name /\ r.email = groups[g].email
          /\ r.members = groups[g].members \cup {i}
      <4>1. groups[g] \in GroupRow
        BY DEF DirInv, DirTypes
      <4> QED BY <1>3, <3>1, <4>1 DEF GroupRow
    <3>3. /\ groups' \in Seq(GroupRow) /\ DOMAIN groups' = DOMAIN groups
          /\ \A h \in DOMAIN groups : groups'[h] = IF h = g THEN r ELSE groups[h]
      BY <2>2, <3>1, <3>2 DEF DirInv, DirTypes
    <3> QED BY <1>3, <3>2, <3>3 DEF GroupsKept
  <2>3. CASE UNCHANGED groups
    BY <2>3, NothingTouched
  <2> QED BY <1>2, <2>1, <2>2, <2>3
<1>8. DirTypes'
  BY <1>1, <1>6, <1>7 DEF DirInv, DirTypes, AccountsKept, GroupsKept
<1>9. OwnAccounts'
  <2>1. DOMAIN groups \subseteq DOMAIN groups'
    BY <1>7 DEF GroupsKept
  <2>2. \A k, q : IsAccountOf(k, q) => k \in Ids' /\ accounts'[k].user = q
    BY <1>3, <1>4, <1>5 DEF IsAccountOf, Ids
  <2>3. \A k \in Ids' : k \in Ids /\ (accounts'[k].live => accounts[k].live)
                        /\ accounts'[k].user = accounts[k].user
    BY <1>3, <1>4, <1>5 DEF Ids
  <2> QED BY <1>1, <2>1, <2>2, <2>3 DEF DirInv, OwnAccounts, IsAccountOf, Live
<1>10. JobsReadLast'
  BY <1>1 DEF DirInv, JobsReadLast
<1>11. ASSUME NEW q \in Subjects PROVE GoesWell(q)'
  <2>1. CASE q = p
    BY <1>1, <2>1 DEF GoesWell
  <2>2. CASE q # p
    BY <1>1, <1>6, <1>7, <2>2, OthersGoWell
  <2> QED BY <2>1, <2>2
<1> QED BY <1>8, <1>9, <1>10, <1>11 DEF DirInv

(* What is found is the person's own account, as it is.                    *)
LEMMA AccountsAreFound ==
    ASSUME DirInv, NEW p \in Subjects, Find(p)
    PROVE  DirInv'
<1>1. job[p].at = "find" /\ job[p] \in JobRow /\ job[p] # NoJob
  BY JobsOfRows DEF Find
<1>2. PICK id \in FindExisting(p, job[p].ext) :
        job' = [job EXCEPT ![p].at = "write", ![p].id = id,
                           ![p].seen = IF id = NoId THEN NoAttr ELSE accounts[id]]
  BY DEF Find
<1>3. id # NoId => IsAccountOf(id, p) /\ Live(id) /\ id \in Nat /\ accounts[id] \in AccountRow
  <2>1. id # NoId => Live(id) /\ (id = job[p].ext \/ accounts[id].user = p)
    BY DEF FindExisting, ByIdThenName, ByName, AccountsOf
  <2>2. id = job[p].ext /\ id # NoId => IsAccountOf(id, p)
    BY <1>1 DEF DirInv, OwnAccounts
  <2> QED BY <2>1, <2>2 DEF IsAccountOf, Live, Ids, DirInv, DirTypes
<1>4. PICK j : j = [job[p] EXCEPT !.at = "write", !.id = id,
                                  !.seen = IF id = NoId THEN NoAttr ELSE accounts[id]]
  OBVIOUS
<1>5. job' = [job EXCEPT ![p] = j] /\ job'[p] = j
  BY <1>2, <1>4 DEF DirInv, DirTypes
<1>6. PICK seen \in AccountRow \cup {NoAttr} : seen = IF id = NoId THEN NoAttr ELSE accounts[id]
  BY <1>3
<1>7. id \in Nat \cup {NoId}
  BY <1>3
<1>8. /\ j \in JobRow /\ j.at = "write" /\ j.id = id /\ j.seen = seen /\ j.want = job[p].want
      /\ j.ext = job[p].ext /\ j.ids = job[p].ids /\ j.add = job[p].add /\ j.drop = job[p].drop
  <2>1. j = [job[p] EXCEPT !.at = "write", !.id = id, !.seen = seen]
    BY <1>4, <1>6
  <2> QED BY <1>1, <1>7, <2>1 DEF JobRow
<1>9. UNCHANGED <<kind, wanted, pending, link, accounts, groups, touched>>
  BY DEF Find
<1>10. p \notin touched => JobWell(p)'
  <2>1. p \notin touched => j.ids = {} /\ j.add = {} /\ j.drop = {}
    BY <1>1, <1>8 DEF DirInv, GoesWell, JobWell
  <2>2. id # NoId => Live(id)' /\ seen = accounts'[id]
    BY <1>3, <1>6, <1>9 DEF Live, Ids
  <2> QED BY <1>5, <1>8, <2>1, <2>2 DEF JobWell
<1>11. job[p].ids \cup job[p].add \cup job[p].drop \subseteq DOMAIN groups
  BY <1>1 DEF DirInv, OwnAccounts
<1>12. id # NoId => IsAccountOf(id, p)'
  BY <1>3, <1>9 DEF IsAccountOf, Ids
<1>13. j.id # NoId => IsAccountOf(j.id, p)'
  BY <1>5, <1>8, <1>12
<1>14. j.id # NoId => j.seen \in AccountRow
  BY <1>3, <1>6, <1>8
<1> QED BY <1>1, <1>5, <1>8, <1>9, <1>10, <1>11, <1>13, <1>14, NothingTouched, JobsGoOn

(* A step of p's job that leaves the target as it is.                      *)
LEMMA JobsThink ==
    ASSUME DirInv, NEW p \in Subjects, NEW j \in JobRow, job[p] # NoJob,
           job' = [job EXCEPT ![p] = j], j.want = job[p].want, j.ext = job[p].ext,
           j.id = job[p].id,
           UNCHANGED <<kind, wanted, pending, link, accounts, groups, touched>>,
           j.at # "write", j.at = "create" => j.creating \in Names,
           j.ids \cup j.add \cup j.drop \subseteq DOMAIN groups,
           p \notin touched => JobWell(p)'
    PROVE  DirInv'
<1>1. job'[p] = j
  BY DEF DirInv, DirTypes
<1>2. job[p].id # NoId => IsAccountOf(job[p].id, p)
  BY DEF DirInv, OwnAccounts
<1>3. j.id # NoId => IsAccountOf(j.id, p)'
  BY <1>1, <1>2 DEF IsAccountOf, Ids
<1> QED BY <1>3, NothingTouched, JobsGoOn

(* What a connector writes has the mapped attributes the row asks for,     *)
(* where it was written over what was read.                                *)
LEMMA ConnectorsWrite ==
    ASSUME NEW held \in AccountRow, NEW want \in Want, NEW seen \in AccountRow, kind \in AllKinds
    PROVE  /\ Written(held, seen, want) \in AccountRow
           /\ Written(held, seen, want).user = held.user
           /\ Written(held, seen, want).live = held.live
           /\ seen = held =>
                 /\ ~ProfileDiffers(Written(held, seen, want), want)
                 /\ kind # "keycloak" => Written(held, seen, want).enabled = want.enabled
<1>0. Managed \subseteq AttrKeys /\ want.attrs \in [Managed -> AttrValues \cup {NoAttr}]
      /\ want.enabled \in BOOLEAN /\ seen.enabled \in BOOLEAN /\ held.enabled \in BOOLEAN
      /\ held.attrs \in [AttrKeys -> AttrValues \cup {NoAttr}]
      /\ seen.attrs \in [AttrKeys -> AttrValues \cup {NoAttr}]
  BY DEF AttrKeys, Want, AccountRow
<1>1. PICK attrs \in [AttrKeys -> AttrValues \cup {NoAttr}], on \in BOOLEAN :
        /\ Written(held, seen, want) = [held EXCEPT !.enabled = on, !.attrs = attrs]
        /\ seen = held =>
              /\ \A k \in Managed : attrs[k] = want.attrs[k]
              /\ kind # "keycloak" => on = want.enabled
  <2>1. CASE kind = "keycloak"
    <3> DEFINE attrs == NewAttrs(want)
    <3>1. attrs \in [AttrKeys -> AttrValues \cup {NoAttr}] /\ \A k \in Managed : attrs[k] = want.attrs[k]
      BY <1>0 DEF NewAttrs
    <3>2. Written(held, seen, want) = [held EXCEPT !.attrs = attrs]
      BY <2>1 DEF Written, KeycloakWritten
    <3>3. [held EXCEPT !.attrs = attrs] = [held EXCEPT !.enabled = held.enabled, !.attrs = attrs]
      BY DEF AccountRow
    <3>4. PICK a, on : a = attrs /\ on = held.enabled
      OBVIOUS
    <3>5. a \in [AttrKeys -> AttrValues \cup {NoAttr}] /\ \A k \in Managed : a[k] = want.attrs[k]
      BY ONLY <3>1, <3>4
    <3>6. on \in BOOLEAN
      BY <1>0, <3>4
    <3>7. Written(held, seen, want) = [held EXCEPT !.enabled = on, !.attrs = a]
      BY ONLY <3>2, <3>3, <3>4
    <3> HIDE DEF attrs
    <3> QED BY ONLY <2>1, <3>5, <3>6, <3>7, Zenon
  <2>2. CASE kind \in {"entra", "google"}
    <3> DEFINE attrs == [k \in AttrKeys |->
                            IF k \in Managed /\ seen.attrs[k] # want.attrs[k] THEN want.attrs[k]
                            ELSE held.attrs[k]]
               on == IF seen.enabled # want.enabled THEN want.enabled ELSE held.enabled
    <3>1. attrs \in [AttrKeys -> AttrValues \cup {NoAttr}]
          /\ (seen = held => \A k \in Managed : attrs[k] = want.attrs[k])
      BY <1>0
    <3>2. Written(held, seen, want) = [held EXCEPT !.enabled = on, !.attrs = attrs]
      BY <2>2 DEF Written, GoogleWritten, EntraWritten
    <3> QED BY <1>0, <3>1, <3>2
  <2>3. CASE kind = "scim_patch"
    <3> DEFINE attrs == [k \in AttrKeys |->
                            IF k \in Managed /\ (want.attrs[k] # NoAttr \/ seen.attrs[k] # NoAttr)
                            THEN want.attrs[k] ELSE held.attrs[k]]
    <3>1. attrs \in [AttrKeys -> AttrValues \cup {NoAttr}]
          /\ (seen = held => \A k \in Managed : attrs[k] = want.attrs[k])
      BY <1>0
    <3>2. Written(held, seen, want) = [held EXCEPT !.enabled = want.enabled, !.attrs = attrs]
      BY <2>3 DEF Written, ScimPatched
    <3> QED BY <1>0, <3>1, <3>2
  <2>4. CASE kind = "scim_put"
    <3> DEFINE attrs == [k \in AttrKeys |-> IF k \in Managed THEN want.attrs[k] ELSE seen.attrs[k]]
    <3>1. attrs \in [AttrKeys -> AttrValues \cup {NoAttr}]
          /\ \A k \in Managed : attrs[k] = want.attrs[k]
      BY <1>0
    <3>2. Written(held, seen, want) = [held EXCEPT !.enabled = want.enabled, !.attrs = attrs]
      BY <2>4 DEF Written, ScimPut
    <3> QED BY <1>0, <3>1, <3>2
  <2> QED BY <2>1, <2>2, <2>3, <2>4 DEF AllKinds
<1>2. PICK a : a = [held EXCEPT !.enabled = on, !.attrs = attrs]
  OBVIOUS
<1>3. /\ a \in AccountRow /\ a.user = held.user /\ a.live = held.live /\ a.attrs = attrs
      /\ a.enabled = on
  BY <1>1, <1>2 DEF AccountRow
<1> QED BY <1>1, <1>2, <1>3 DEF ProfileDiffers

(* Where a job goes once its held is written.                           *)
LEMMA AfterwardsComes ==
    ASSUME kind \in AllKinds
    PROVE  /\ AfterWrite \in {"enable", "ensure", "read"}
           /\ AfterWrite = "enable" <=> kind = "keycloak"
           /\ AfterWrite = "read" <=> Scim
BY DEF AfterWrite, AllKinds, Scim

LEMMA AccountsAreCreated ==
    ASSUME DirInv, NEW p \in Subjects, CreateAccount(p)
    PROVE  DirInv'
<1>1. job[p].at = "write" /\ job[p] \in JobRow /\ job[p] # NoJob /\ AccountsOf(p) = {}
      /\ UNCHANGED <<kind, wanted, pending, link, groups, touched>> /\ job[p].want \in Want
  BY JobsOfRows DEF CreateAccount, JobRow
<1>2. PICK id \in Nat : id = Len(accounts) + 1 /\ id = Cardinality(Ids) + 1
  <2>1. PICK n \in Nat : n = Len(accounts) /\ Ids = 1..n
    BY DEF Ids, DirInv, DirTypes
  <2>2. Cardinality(Ids) = n
    <3>1. Cardinality(1..n) = IF 1 > n THEN 0 ELSE n - 1 + 1
      BY FS_Interval
    <3> QED BY <2>1, <3>1
  <2> QED BY <2>1, <2>2
<1>3. PICK a : a = [user |-> p, live |-> TRUE, attrs |-> NewAttrs(job[p].want),
                    enabled |-> job[p].want.enabled]
  OBVIOUS
<1>4. /\ a \in AccountRow /\ a.user = p /\ a.live /\ a.enabled = job[p].want.enabled
      /\ ~ProfileDiffers(a, job[p].want)
  <2>1. /\ NewAttrs(job[p].want) \in [AttrKeys -> AttrValues \cup {NoAttr}]
        /\ \A k \in Managed : NewAttrs(job[p].want)[k] = job[p].want.attrs[k]
    BY <1>1 DEF NewAttrs, AttrKeys, Want
  <2>2. job[p].want.enabled \in BOOLEAN
    BY <1>1 DEF Want
  <2> QED BY <1>3, <2>1, <2>2 DEF AccountRow, ProfileDiffers
<1>5. PICK at \in {"ensure", "read"} :
         at = (IF kind = "keycloak" THEN "ensure" ELSE AfterWrite) /\ (at = "read" <=> Scim)
  BY AfterwardsComes DEF DirInv, DirTypes, Scim
<1>6. PICK j : j = [job[p] EXCEPT !.id = id, !.todo = job[p].want.groups, !.at = at]
  OBVIOUS
<1>7. /\ j \in JobRow /\ j.at = at /\ j.id = id /\ j.want = job[p].want /\ j.ext = job[p].ext
      /\ j.ids = job[p].ids /\ j.add = job[p].add /\ j.drop = job[p].drop
      /\ j.todo = job[p].want.groups
  BY <1>1, <1>6 DEF JobRow, Want
<1>8. accounts' = Append(accounts, a) /\ job' = [job EXCEPT ![p] = j]
  BY <1>2, <1>3, <1>5, <1>6 DEF CreateAccount, DirInv, DirTypes
<1>9. job'[p] = j
  BY <1>8 DEF DirInv, DirTypes
<1>10. /\ accounts' \in Seq(AccountRow) /\ Ids' = Ids \cup {id} /\ id \notin Ids /\ accounts'[id] = a
       /\ \A i \in Ids : accounts'[i] = accounts[i]
  BY <1>2, <1>4, <1>8 DEF Ids, DirInv, DirTypes
<1>11. AccountsKept(p)
  <2>1. \A i \in Ids : ~(accounts[i].user = p /\ accounts[i].live)
    BY <1>1 DEF AccountsOf, Live
  <2> QED BY <1>4, <1>10, <2>1 DEF AccountsKept
<1>12. j.id # NoId /\ IsAccountOf(j.id, p)'
  <2>1. j.id = id /\ id # NoId
    BY <1>7, DirectoriesAssumption
  <2>2. id \in Ids' /\ accounts'[id].user = p
    BY <1>4, <1>10
  <2>3. j' = j
    OBVIOUS
  <2> QED BY <2>1, <2>2, <2>3 DEF IsAccountOf
<1>13. p \notin touched => JobWell(p)'
  <2>1. p \notin touched => j.ids = {} /\ j.add = {} /\ j.drop = {}
    BY <1>1, <1>7 DEF DirInv, GoesWell, JobWell
  <2>2. Live(id)' /\ ~ProfileDiffers(a, j.want)' /\ a.enabled = j.want.enabled
    BY <1>4, <1>7, <1>10 DEF Live, ProfileDiffers
  <2>3. Scim' <=> Scim
    BY <1>1 DEF Scim
  <2>4. j.ids = {} /\ at # "read" => Collected(j)'
    BY <1>1, <1>7, <1>5 DEF Collected
  <2> QED BY <1>5, <1>7, <1>9, <1>10, <1>12, <2>1, <2>2, <2>3, <2>4 DEF JobWell
<1>14. j.ids \cup j.add \cup j.drop \subseteq DOMAIN groups'
  BY <1>1, <1>7 DEF DirInv, OwnAccounts
<1> QED BY <1>1, <1>7, <1>8, <1>11, <1>12, <1>13, <1>14, NothingTouched, JobsGoOn

(* A request that writes the person's own account.                         *)
LEMMA OwnAccountsAreWritten ==
    ASSUME DirInv, NEW p \in Subjects, NEW i, IsAccountOf(i, p), NEW a \in AccountRow, a.user = p,
           a.live = accounts[i].live, accounts' = [accounts EXCEPT ![i] = a]
    PROVE  AccountsKept(p) /\ accounts'[i] = a /\ i \in DOMAIN accounts'
<1>1. /\ accounts' \in Seq(AccountRow) /\ DOMAIN accounts' = DOMAIN accounts /\ i \in DOMAIN accounts
      /\ \A k \in DOMAIN accounts : accounts'[k] = IF k = i THEN a ELSE accounts[k]
      /\ accounts[i].user = p
  BY DEF DirInv, DirTypes, Ids, IsAccountOf
<1>2. AccountsKept(p)
  BY <1>1 DEF AccountsKept, Ids, DirInv, OwnAccounts, Live
<1> QED BY <1>1, <1>2

LEMMA AccountsAreUpdated ==
    ASSUME DirInv, NEW p \in Subjects, UpdateAccount(p)
    PROVE  DirInv'
<1>1. /\ job[p].at = "write" /\ job[p] \in JobRow /\ job[p] # NoJob /\ job[p].id # NoId
      /\ UNCHANGED <<kind, wanted, pending, link, groups, touched>> /\ job[p].want \in Want
  BY JobsOfRows DEF UpdateAccount, JobRow
<1>2. PICK i \in Nat : i = job[p].id /\ IsAccountOf(i, p) /\ Live(i) /\ accounts[i] \in AccountRow
                       /\ accounts[i].user = p
  BY <1>1 DEF UpdateAccount, DirInv, DirTypes, OwnAccounts, JobRow, IsAccountOf, Ids
<1>3. PICK at \in {"enable", "ensure", "read"} :
         at = AfterWrite /\ (at = "enable" <=> kind = "keycloak") /\ (at = "read" <=> Scim)
  BY AfterwardsComes DEF DirInv, DirTypes
<1>4. PICK j : j = [job[p] EXCEPT !.at = at, !.todo = job[p].want.groups]
  OBVIOUS
<1>5. /\ j \in JobRow /\ j.at = at /\ j.id = i /\ j.want = job[p].want /\ j.ext = job[p].ext
      /\ j.ids = job[p].ids /\ j.add = job[p].add /\ j.drop = job[p].drop
      /\ j.todo = job[p].want.groups
  BY <1>1, <1>2, <1>4 DEF JobRow, Want
<1>6. job' = [job EXCEPT ![p] = j]
  BY <1>3, <1>4 DEF UpdateAccount, DirInv, DirTypes
<1>7. job'[p] = j
  BY <1>6 DEF DirInv, DirTypes
<1>8. job[p].seen \in AccountRow /\ kind \in AllKinds
  BY <1>1 DEF DirInv, DirTypes, OwnAccounts
<1>9. PICK a : a = Written(accounts[i], job[p].seen, job[p].want)
  OBVIOUS
<1>10. /\ a \in AccountRow /\ a.user = p /\ a.live = accounts[i].live
       /\ job[p].seen = accounts[i] =>
              /\ ~ProfileDiffers(a, job[p].want)
              /\ kind # "keycloak" => a.enabled = job[p].want.enabled
  BY <1>1, <1>2, <1>8, <1>9, ConnectorsWrite
<1>11. accounts' = [accounts EXCEPT ![i] = a]
  BY <1>2, <1>9 DEF UpdateAccount, DirInv, DirTypes
<1>12. /\ AccountsKept(p) /\ accounts'[i] = a /\ IsAccountOf(i, p)' /\ (Live(i)' <=> Live(i))
  <2>1. AccountsKept(p) /\ accounts'[i] = a /\ i \in DOMAIN accounts'
    BY <1>2, <1>10, <1>11, OwnAccountsAreWritten
  <2> QED BY <1>2, <1>10, <1>11, <2>1 DEF IsAccountOf, Live, Ids
<1>13. p \notin touched => JobWell(p)'
  <2>1. ASSUME p \notin touched
        PROVE  j.ids = {} /\ j.add = {} /\ j.drop = {} /\ job[p].seen = accounts[i]
    BY <1>1, <1>2, <1>5, <2>1 DEF DirInv, GoesWell, JobWell
  <2>2. Scim' <=> Scim
    BY <1>1 DEF Scim
  <2>3. j.ids = {} /\ at # "read" => Collected(j)'
    BY <1>1, <1>3, <1>5 DEF Collected
  <2>4. ~ProfileDiffers(a, job[p].want) => ~ProfileDiffers(accounts[i], j.want)'
    BY <1>5, <1>12 DEF ProfileDiffers
  <2>5. kind = "keycloak" => ~Scim
    BY DEF Scim
  <2> QED BY <1>1, <1>2, <1>3, <1>5, <1>7, <1>10, <1>12, <2>1, <2>2, <2>3, <2>4, <2>5 DEF JobWell
<1>14. j.ids \cup j.add \cup j.drop \subseteq DOMAIN groups'
  BY <1>1, <1>5 DEF DirInv, OwnAccounts
<1>15. j.id # NoId => IsAccountOf(j.id, p)'
  BY <1>5, <1>7, <1>12
<1> QED BY <1>1, <1>3, <1>5, <1>6, <1>12, <1>13, <1>14, <1>15, NothingTouched, JobsGoOn

LEMMA FlagsAreSet ==
    ASSUME DirInv, NEW p \in Subjects, SetEnabled(p)
    PROVE  DirInv'
<1>1. /\ job[p].at = "enable" /\ job[p] \in JobRow /\ job[p] # NoJob /\ Live(job[p].id)
      /\ UNCHANGED <<kind, wanted, pending, link, groups, touched>> /\ job[p].want \in Want
  BY JobsOfRows DEF SetEnabled, JobRow
<1>2. PICK i \in Nat : i = job[p].id /\ i # NoId /\ IsAccountOf(i, p) /\ Live(i)
                       /\ accounts[i] \in AccountRow /\ accounts[i].user = p
  <2>1. job[p].id \in Ids
    BY <1>1 DEF Live
  <2>2. job[p].id \in Nat /\ accounts[job[p].id] \in AccountRow
    BY <2>1 DEF Ids, DirInv, DirTypes
  <2> QED BY <1>1, <2>2, DirectoriesAssumption DEF DirInv, OwnAccounts, IsAccountOf
<1>3. PICK j : j = [job[p] EXCEPT !.at = "ensure"]
  OBVIOUS
<1>4. /\ j \in JobRow /\ j.at = "ensure" /\ j.id = i /\ j.want = job[p].want /\ j.ext = job[p].ext
      /\ j.ids = job[p].ids /\ j.add = job[p].add /\ j.drop = job[p].drop
      /\ j.todo = job[p].todo
  BY <1>1, <1>2, <1>3 DEF JobRow
<1>5. job' = [job EXCEPT ![p] = j]
  BY <1>3 DEF SetEnabled, DirInv, DirTypes
<1>6. job'[p] = j
  BY <1>5 DEF DirInv, DirTypes
<1>7. PICK a : a = [accounts[i] EXCEPT !.enabled = job[p].want.enabled]
  OBVIOUS
<1>8. /\ a \in AccountRow /\ a.user = p /\ a.live = accounts[i].live
      /\ a.attrs = accounts[i].attrs /\ a.enabled = job[p].want.enabled
  <2>1. job[p].want.enabled \in BOOLEAN
    BY <1>1 DEF Want
  <2> QED BY <1>2, <1>7, <2>1 DEF AccountRow
<1>9. accounts' = [accounts EXCEPT ![i] = a]
  BY <1>2, <1>7 DEF SetEnabled
<1>10. /\ AccountsKept(p) /\ accounts'[i] = a /\ IsAccountOf(i, p)' /\ (Live(i)' <=> Live(i))
  <2>1. AccountsKept(p) /\ accounts'[i] = a /\ i \in DOMAIN accounts'
    BY <1>2, <1>8, <1>9, OwnAccountsAreWritten
  <2> QED BY <1>2, <1>8, <1>9, <2>1 DEF IsAccountOf, Live, Ids
<1>11. p \notin touched => JobWell(p)'
  <2>1. ASSUME p \notin touched
        PROVE  ~Scim /\ Collected(job[p]) /\ ~ProfileDiffers(accounts[i], job[p].want)
    BY <1>1, <1>2, <2>1 DEF DirInv, GoesWell, JobWell
  <2>2. Scim' <=> Scim
    BY <1>1 DEF Scim
  <2>3. Collected(job[p]) => Collected(j)'
    BY <1>1, <1>4 DEF Collected, Found, Called, Addressed
  <2>4. ~ProfileDiffers(accounts[i], job[p].want) => ~ProfileDiffers(accounts[i], j.want)'
    BY <1>4, <1>8, <1>10 DEF ProfileDiffers
  <2> QED BY <1>1, <1>2, <1>4, <1>6, <1>8, <1>10, <2>1, <2>2, <2>3, <2>4 DEF JobWell
<1>12. j.ids \cup j.add \cup j.drop \subseteq DOMAIN groups'
  BY <1>1, <1>4 DEF DirInv, OwnAccounts
<1>13. j.id # NoId => IsAccountOf(j.id, p)'
  BY <1>4, <1>6, <1>10
<1> QED BY <1>1, <1>4, <1>5, <1>10, <1>11, <1>12, <1>13, NothingTouched, JobsGoOn

(* A group of the name is got, whether it was found or created.            *)
LEMMA GroupsAreGot ==
    ASSUME DirInv, NEW p \in Subjects, job[p].at \in {"ensure", "create"},
           NEW n, NEW g \in DOMAIN groups', Got(p, n, g),
           UNCHANGED <<kind, wanted, pending, link, accounts, touched>>, GroupsKept(p),
           \A h \in DOMAIN groups' : \A i :
               i \in groups'[h].members <=> h \in DOMAIN groups /\ i \in groups[h].members,
           p \notin touched => n \in job[p].todo,
           IF kind = "google" THEN groups'[g].email = EmailOf[n] ELSE groups'[g].name = n
    PROVE  DirInv'
<1>1. job[p] \in JobRow /\ job[p] # NoJob /\ g \in Nat
  BY JobsOfRows DEF GroupsKept
<1>2. PICK at \in {"members", "ensure"}, ids \in SUBSET Nat, add \in SUBSET Nat :
         /\ at = IF Scim THEN "members" ELSE "ensure"
         /\ ids = IF Scim THEN job[p].ids ELSE job[p].ids \cup {g}
         /\ add = IF Scim THEN {g} ELSE job[p].add
  BY <1>1 DEF JobRow
<1>3. PICK j : j = [job[p] EXCEPT !.todo = @ \ {n}, !.creating = NoAttr, !.at = at, !.ids = ids,
                                  !.add = add]
  OBVIOUS
<1>4. /\ j \in JobRow /\ j.at = at /\ j.todo = job[p].todo \ {n} /\ j.ids = ids /\ j.add = add
      /\ j.id = job[p].id /\ j.want = job[p].want /\ j.ext = job[p].ext /\ j.drop = job[p].drop
  <2>1. /\ at \in {"ensure", "members"} /\ ids \in SUBSET Nat /\ add \in SUBSET Nat
        /\ job[p].todo \ {n} \in SUBSET Names
    BY <1>1, <1>2 DEF JobRow
  <2>2. PICK o \in JobRow : o = job[p]
    BY <1>1
  <2>3. j = [o EXCEPT !.todo = o.todo \ {n}, !.creating = NoAttr, !.at = at, !.ids = ids, !.add = add]
    BY <1>3, <2>2
  <2>4. /\ j.at = at /\ j.todo = o.todo \ {n} /\ j.ids = ids /\ j.add = add
        /\ j.id = o.id /\ j.want = o.want /\ j.ext = o.ext /\ j.drop = o.drop
    BY ONLY o \in JobRow, <2>3 DEF JobRow
  <2>5. j \in JobRow
    BY ONLY <2>1, o \in JobRow, o = job[p], <2>3 DEF JobRow
  <2> QED BY <2>2, <2>4, <2>5
<1>5. job' = [job EXCEPT ![p] = j]
  BY <1>2, <1>3 DEF Got, DirInv, DirTypes
<1>6. job'[p] = j
  BY <1>5 DEF DirInv, DirTypes
<1>7. DOMAIN groups \subseteq DOMAIN groups' /\ Ids' = Ids
  BY DEF GroupsKept, Ids
<1>8. job[p].ids \cup job[p].add \cup job[p].drop \subseteq DOMAIN groups
      /\ (job[p].id # NoId => IsAccountOf(job[p].id, p))
  BY <1>1 DEF DirInv, OwnAccounts
<1>9. j.ids \cup j.add \cup j.drop \subseteq DOMAIN groups'
  BY <1>2, <1>4, <1>7, <1>8
<1>10. j.id # NoId => IsAccountOf(j.id, p)'
  BY <1>4, <1>6, <1>7, <1>8 DEF IsAccountOf
<1>11. ASSUME p \notin touched PROVE JobWell(p)'
  <2>1. /\ n \in job[p].todo /\ JobWell(p)
    BY <1>1, <1>11 DEF DirInv, GoesWell
  <2>2. /\ job[p].id # NoId /\ Live(job[p].id) /\ ~ProfileDiffers(accounts[job[p].id], job[p].want)
        /\ accounts[job[p].id].enabled = job[p].want.enabled
        /\ IF Scim THEN Joined(job[p]) ELSE Collected(job[p])
    BY <2>1 DEF JobWell
  <2>3. /\ Live(j.id)' /\ j.id # NoId /\ accounts'[j.id] = accounts[job[p].id]
        /\ ~ProfileDiffers(accounts[j.id], j.want)' /\ accounts'[j.id].enabled = j.want.enabled
    BY <1>4, <1>6, <1>7, <2>2 DEF Live, ProfileDiffers
  <2>4. GroupsOf(j.id)' = GroupsOf(job[p].id)
    BY <1>4, <1>7 DEF GroupsOf
  <2>5. Scim' <=> Scim
    BY DEF Scim
  <2>6. CASE Scim
    <3>1. j.at = "members" /\ j.add = {g} /\ groups'[g].name = n /\ n \in j.want.groups
      BY <1>2, <1>4, <2>1, <2>2, <2>6 DEF Scim, Joined
    <3>2. \A h \in j.drop \cup GroupsOf(job[p].id) : h \in DOMAIN groups /\ groups'[h].name = groups[h].name
      BY <1>4, <1>8 DEF GroupsKept, GroupsOf
    <3>3. Joined(job[p]) /\ job[p].add = {}
      BY <2>2, <2>6 DEF Joined
    <3>4. \A m \in j.want.groups : \/ m \in j.todo
                                   \/ \E h \in j.add \cup GroupsOf(job[p].id) : groups'[h].name = m
      BY <1>4, <3>1, <3>2, <3>3 DEF Joined
    <3>5. Joined(j)'
      BY <1>4, <2>4, <3>1, <3>2, <3>3, <3>4 DEF Joined
    <3> QED BY <1>2, <1>4, <1>6, <2>3, <2>5, <2>6, <3>5 DEF JobWell
  <2>7. CASE ~Scim
    <3>1. \A m : Found(m) \subseteq Found(m)'
      BY DEF Found, Addressed, Called, GroupsKept
    <3>2. g \in Found(n)'
      BY DEF Found, Addressed, Called
    <3>3. j.at = "ensure" /\ j.ids = job[p].ids \cup {g} /\ n \in j.want.groups
      BY <1>2, <1>4, <2>1, <2>2, <2>7 DEF Collected
    <3>4. Collected(j)'
      BY <1>4, <2>2, <2>7, <3>1, <3>2, <3>3 DEF Collected
    <3> QED BY <1>2, <1>4, <1>6, <2>3, <2>5, <2>7, <3>4 DEF JobWell
  <2> QED BY <2>6, <2>7
<1>12. j.at # "write" /\ j.at # "create"
  BY <1>2, <1>4
<1> QED BY <1>1, <1>4, <1>5, <1>9, <1>10, <1>11, <1>12, NothingTouched, JobsGoOn

LEMMA GroupsAreLookedUp ==
    ASSUME DirInv, NEW p \in Subjects, FindGroup(p)
    PROVE  DirInv'
<1>1. /\ job[p].at = "ensure" /\ job[p] \in JobRow /\ job[p] # NoJob
      /\ UNCHANGED <<kind, wanted, pending, link, accounts, groups, touched>>
  BY JobsOfRows DEF FindGroup
<1>2. PICK n \in job[p].todo :
         \/ \E g \in Found(n) : Got(p, n, g)
         \/ job' = [job EXCEPT ![p].at = "create", ![p].creating = n]
  BY DEF FindGroup
<1>3. ASSUME NEW g \in Found(n), Got(p, n, g) PROVE DirInv'
  <2>1. g \in DOMAIN groups /\ (IF kind = "google" THEN groups[g].email = EmailOf[n] ELSE groups[g].name = n)
    BY DEF Found, Addressed, Called
  <2>2. GroupsKept(p)
    BY <1>1, NothingTouched
  <2> QED BY <1>1, <1>3, <2>1, <2>2, GroupsAreGot
<1>4. CASE job' = [job EXCEPT ![p].at = "create", ![p].creating = n]
  <2>1. PICK j : j = [job[p] EXCEPT !.at = "create", !.creating = n]
    OBVIOUS
  <2>2. n \in Names
    BY <1>1 DEF JobRow
  <2>3. /\ j \in JobRow /\ j.at = "create" /\ j.creating = n /\ j.todo = job[p].todo
        /\ j.ids = job[p].ids /\ j.add = job[p].add
        /\ j.id = job[p].id /\ j.want = job[p].want /\ j.ext = job[p].ext /\ j.drop = job[p].drop
    BY <1>1, <2>1, <2>2 DEF JobRow
  <2>4. job' = [job EXCEPT ![p] = j] /\ job'[p] = j
    BY <1>4, <2>1 DEF DirInv, DirTypes
  <2>5. ASSUME p \notin touched PROVE JobWell(p)'
    <3>1. JobWell(p)
      BY <1>1, <2>5 DEF DirInv, GoesWell
    <3>2. Scim' <=> Scim
      BY <1>1 DEF Scim
    <3>3. Joined(job[p]) => Joined(j)'
      BY <1>1, <2>3 DEF Joined, GroupsOf
    <3>4. Collected(job[p]) => Collected(j)'
      BY <1>1, <2>3 DEF Collected, Found, Called, Addressed
    <3> QED BY <1>1, <2>3, <2>4, <3>1, <3>2, <3>3, <3>4 DEF JobWell, Live, Ids, ProfileDiffers
  <2>6. j.ids \cup j.add \cup j.drop \subseteq DOMAIN groups
    BY <1>1, <2>3 DEF DirInv, OwnAccounts
  <2> QED BY <1>1, <2>2, <2>3, <2>4, <2>5, <2>6, JobsThink
<1> QED BY <1>2, <1>3, <1>4

LEMMA GroupsAreAppended ==
    ASSUME DirInv, NEW p \in Subjects, NEW n \in Names, groups' = NewGroup(n), UNCHANGED accounts
    PROVE  /\ GroupsKept(p)
           /\ Len(groups) + 1 \in DOMAIN groups'
           /\ groups'[Len(groups) + 1].name = n /\ groups'[Len(groups) + 1].email = EmailOf[n]
           /\ \A h \in DOMAIN groups' : \A i :
                 i \in groups'[h].members <=> h \in DOMAIN groups /\ i \in groups[h].members
<1>1. PICK r : r = [name |-> n, email |-> EmailOf[n], members |-> {}]
  OBVIOUS
<1>2. r \in GroupRow /\ r.name = n /\ r.email = EmailOf[n] /\ r.members = {}
  BY <1>1 DEF GroupRow
<1>3. groups' = Append(groups, r) /\ groups \in Seq(GroupRow)
  BY <1>1 DEF NewGroup, DirInv, DirTypes
<1>4. PICK g \in Nat : g = Len(groups) + 1
  BY <1>3
<1>5. /\ groups' \in Seq(GroupRow) /\ DOMAIN groups' = DOMAIN groups \cup {g} /\ g \notin DOMAIN groups
      /\ groups'[g] = r /\ \A h \in DOMAIN groups : groups'[h] = groups[h]
  BY <1>2, <1>3, <1>4
<1>6. \A h \in DOMAIN groups' : \A i :
         i \in groups'[h].members <=> h \in DOMAIN groups /\ i \in groups[h].members
  BY <1>2, <1>5
<1>7. GroupsKept(p)
  BY <1>5, <1>6 DEF GroupsKept
<1> QED BY <1>2, <1>4, <1>5, <1>6, <1>7

(* The group a job creates is the one it looked for.                       *)
LEMMA GroupsAreWanted ==
    ASSUME DirInv, NEW p \in Subjects, job[p].at = "create"
    PROVE  /\ job[p].creating \in Names
           /\ p \notin touched => job[p].creating \in job[p].todo
BY JobsOfRows DEF DirInv, OwnAccounts, GoesWell, JobWell

LEMMA GroupsAreCreated ==
    ASSUME DirInv, NEW p \in Subjects, CreateTargetGroup(p) \/ KeycloakCreateGroup(p)
    PROVE  DirInv'
<1>1. /\ job[p].at = "create" /\ UNCHANGED <<kind, wanted, pending, link, accounts, touched>>
      /\ job[p].at \in {"ensure", "create"}
  BY DEF CreateTargetGroup, KeycloakCreateGroup
<1>2. PICK n \in Names : n = job[p].creating /\ (p \notin touched => n \in job[p].todo)
  BY <1>1, GroupsAreWanted
<1>3. CASE groups' = NewGroup(n) /\ Got(p, n, Len(groups) + 1)
  <2>1. PICK g : g = Len(groups) + 1
    OBVIOUS
  <2>2. /\ GroupsKept(p) /\ g \in DOMAIN groups'
        /\ groups'[g].name = n /\ groups'[g].email = EmailOf[n]
        /\ \A h \in DOMAIN groups' : \A i :
              i \in groups'[h].members <=> h \in DOMAIN groups /\ i \in groups[h].members
    BY <1>1, <1>3, <2>1, GroupsAreAppended
  <2>3. Got(p, n, g)
    BY <1>3, <2>1
  <2> QED BY <1>1, <1>2, <2>2, <2>3, GroupsAreGot
<1>4. ASSUME NEW g \in Called(n), kind = "keycloak", Got(p, n, g), UNCHANGED groups
      PROVE  DirInv'
  <2>1. g \in DOMAIN groups' /\ groups'[g].name = n
    BY <1>4 DEF Called
  <2>2. GroupsKept(p)
    BY <1>4, NothingTouched
  <2>3. \A h \in DOMAIN groups' : \A i :
           i \in groups'[h].members <=> h \in DOMAIN groups /\ i \in groups[h].members
    BY <1>4
  <2> QED BY <1>1, <1>2, <1>4, <2>1, <2>2, <2>3, GroupsAreGot
<1> QED BY <1>2, <1>3, <1>4 DEF CreateTargetGroup, KeycloakCreateGroup

LEMMA MembershipsAreRead ==
    ASSUME DirInv, NEW p \in Subjects, ReadMemberships(p)
    PROVE  DirInv'
<1>1. /\ job[p].at = "ensure" /\ job[p].todo = {} /\ ~Scim
      /\ job[p] \in JobRow /\ job[p] # NoJob
      /\ UNCHANGED <<kind, wanted, pending, link, accounts, groups, touched>>
  BY JobsOfRows DEF ReadMemberships
<1>2. PICK now \in SUBSET Nat : now = GroupsOf(job[p].id) /\ now \subseteq DOMAIN groups
  <2>1. DOMAIN groups \subseteq Nat
    BY DEF DirInv, DirTypes
  <2> QED BY <2>1 DEF GroupsOf
<1>3. PICK j : j = [job[p] EXCEPT !.at = "members", !.add = job[p].ids \ now,
                                  !.drop = now \ job[p].ids]
  OBVIOUS
<1>4. /\ j \in JobRow /\ j.at = "members" /\ j.add = job[p].ids \ now /\ j.drop = now \ job[p].ids
      /\ j.ids = job[p].ids /\ j.todo = job[p].todo /\ j.id = job[p].id
      /\ j.want = job[p].want /\ j.ext = job[p].ext
  BY <1>1, <1>2, <1>3 DEF JobRow
<1>5. job' = [job EXCEPT ![p] = j]
  BY <1>2, <1>3 DEF ReadMemberships, Superfluous, DirInv, DirTypes
<1>6. job'[p] = j
  BY <1>5 DEF DirInv, DirTypes
<1>7. j.ids \cup j.add \cup j.drop \subseteq DOMAIN groups
  BY <1>1, <1>2, <1>4 DEF DirInv, OwnAccounts
<1>8. ASSUME p \notin touched PROVE JobWell(p)'
  <2>1. JobWell(p) /\ Collected(job[p])
    BY <1>1, <1>8 DEF DirInv, GoesWell, JobWell
  <2>2. ~Scim'
    BY <1>1 DEF Scim
  <2>3. GroupsOf(j.id)' = now
    BY <1>1, <1>2, <1>4 DEF GroupsOf
  <2>4. Collected(j)'
    BY <1>1, <1>4, <2>1, <2>3 DEF Collected, Found, Called, Addressed
  <2> QED BY <1>1, <1>4, <1>6, <2>1, <2>2, <2>4 DEF JobWell, Live, Ids, ProfileDiffers
<1> QED BY <1>1, <1>4, <1>5, <1>7, <1>8, JobsThink

LEMMA ScimMembershipsAreRead ==
    ASSUME DirInv, NEW p \in Subjects, ScimReadMemberships(p)
    PROVE  DirInv'
<1>1. /\ job[p].at = "read" /\ job[p] \in JobRow /\ job[p] # NoJob
      /\ UNCHANGED <<kind, wanted, pending, link, accounts, groups, touched>>
      /\ job[p].want.groups \subseteq Names
  BY JobsOfRows DEF ScimReadMemberships, JobRow, Want
<1>2. PICK missing \in SUBSET Names : missing = job[p].want.groups \ NamesOf(job[p].id)
  BY <1>1
<1>3. PICK drop \in SUBSET Nat :
        drop = {g \in GroupsOf(job[p].id) : groups[g].name \notin job[p].want.groups}
        /\ drop \subseteq DOMAIN groups
  <2>1. DOMAIN groups \subseteq Nat
    BY DEF DirInv, DirTypes
  <2> QED BY <2>1 DEF GroupsOf
<1>4. PICK at \in {"members", "ensure"} : at = IF missing = {} THEN "members" ELSE "ensure"
  OBVIOUS
<1>5. PICK j : j = [job[p] EXCEPT !.at = at, !.todo = missing, !.drop = drop]
  OBVIOUS
<1>6. /\ j \in JobRow /\ j.at = at /\ j.todo = missing /\ j.drop = drop
      /\ j.ids = job[p].ids /\ j.add = job[p].add /\ j.id = job[p].id
      /\ j.want = job[p].want /\ j.ext = job[p].ext
  BY <1>1, <1>5 DEF JobRow
<1>7. job' = [job EXCEPT ![p] = j]
  BY <1>2, <1>3, <1>4, <1>5 DEF ScimReadMemberships, DirInv, DirTypes
<1>8. job'[p] = j
  BY <1>7 DEF DirInv, DirTypes
<1>9. j.ids \cup j.add \cup j.drop \subseteq DOMAIN groups
  BY <1>1, <1>3, <1>6 DEF DirInv, OwnAccounts
<1>10. ASSUME p \notin touched PROVE JobWell(p)'
  <2>1. JobWell(p) /\ Scim /\ job[p].add = {}
    BY <1>1, <1>10 DEF DirInv, GoesWell, JobWell
  <2>2. Scim'
    BY <1>1, <2>1 DEF Scim
  <2>3. GroupsOf(j.id)' = GroupsOf(job[p].id)
    BY <1>1, <1>6 DEF GroupsOf
  <2>4. \A n \in j.want.groups : n \in j.todo \/ \E g \in GroupsOf(job[p].id) : groups[g].name = n
    BY <1>2, <1>6 DEF NamesOf
  <2>5. Joined(j)'
    BY <1>1, <1>2, <1>3, <1>4, <1>6, <2>1, <2>3, <2>4 DEF Joined
  <2> QED BY <1>1, <1>4, <1>6, <1>8, <2>1, <2>2, <2>5 DEF JobWell, Live, Ids, ProfileDiffers
<1>11. j.at # "write" /\ j.at # "create"
  BY <1>4, <1>6
<1> QED BY <1>1, <1>6, <1>7, <1>9, <1>10, <1>11, JobsThink

(* A request that puts the person's own account into a group or takes it   *)
(* out of one.                                                             *)
LEMMA EdgesAreWritten ==
    ASSUME DirInv, NEW p \in Subjects, NEW i \in Nat, IsAccountOf(i, p), NEW g \in DOMAIN groups,
           NEW r \in GroupRow, groups' = [groups EXCEPT ![g] = r],
           r.name = groups[g].name, r.email = groups[g].email,
           \A k \in Nat : k # i => (k \in r.members <=> k \in groups[g].members)
    PROVE  /\ GroupsKept(p) /\ DOMAIN groups' = DOMAIN groups
           /\ \A h \in DOMAIN groups :
                 /\ groups'[h].name = groups[h].name /\ groups'[h].email = groups[h].email
                 /\ groups'[h].members = IF h = g THEN r.members ELSE groups[h].members
<1>1. /\ groups' \in Seq(GroupRow) /\ DOMAIN groups' = DOMAIN groups
      /\ \A h \in DOMAIN groups : groups'[h] = IF h = g THEN r ELSE groups[h]
  BY DEF DirInv, DirTypes
<1>2. \A k \in Ids : k \in Nat /\ (accounts[k].user # p => k # i)
  BY DEF IsAccountOf, Ids, DirInv, DirTypes
<1> QED BY <1>1, <1>2 DEF GroupsKept

LEMMA MembersAreAdded ==
    ASSUME DirInv, NEW p \in Subjects, AddAtTarget(p)
    PROVE  DirInv'
<1>1. /\ job[p].at = "members" /\ job[p] \in JobRow /\ job[p] # NoJob /\ Live(job[p].id)
      /\ UNCHANGED <<kind, wanted, pending, link, accounts, touched>>
  BY JobsOfRows DEF AddAtTarget
<1>2. PICK i \in Nat : i = job[p].id /\ i # NoId /\ IsAccountOf(i, p) /\ Live(i)
  <2>1. job[p].id \in Nat
    BY <1>1 DEF Live, Ids, DirInv, DirTypes
  <2> QED BY <1>1, <2>1, DirectoriesAssumption DEF DirInv, OwnAccounts
<1>3. PICK g \in job[p].add :
         /\ groups' = [groups EXCEPT ![g].members = @ \cup {i}]
         /\ job' = [job EXCEPT ![p].add = @ \ {g}, ![p].at = IF job[p].todo = {} THEN "members" ELSE "ensure"]
  BY <1>2 DEF AddAtTarget
<1>4. job[p].ids \cup job[p].add \cup job[p].drop \subseteq DOMAIN groups /\ g \in DOMAIN groups
  BY <1>1, <1>3 DEF DirInv, OwnAccounts
<1>5. PICK at \in {"members", "ensure"} : at = IF job[p].todo = {} THEN "members" ELSE "ensure"
  OBVIOUS
<1>6. PICK j : j = [job[p] EXCEPT !.add = @ \ {g}, !.at = at]
  OBVIOUS
<1>7. /\ j \in JobRow /\ j.at = at /\ j.todo = job[p].todo /\ j.drop = job[p].drop
      /\ j.ids = job[p].ids /\ j.add = job[p].add \ {g} /\ j.id = i
      /\ j.want = job[p].want /\ j.ext = job[p].ext
  BY <1>1, <1>2, <1>6 DEF JobRow
<1>8. job' = [job EXCEPT ![p] = j]
  BY <1>3, <1>5, <1>6 DEF DirInv, DirTypes
<1>9. job'[p] = j
  BY <1>8 DEF DirInv, DirTypes
<1>10. PICK m \in SUBSET Nat, r \in GroupRow :
         /\ m = groups[g].members \cup {i} /\ r = [groups[g] EXCEPT !.members = @ \cup {i}]
         /\ r.members = m /\ r.name = groups[g].name /\ r.email = groups[g].email
  <2>1. groups[g] \in GroupRow
    BY <1>4 DEF DirInv, DirTypes
  <2>2. PICK r : r = [groups[g] EXCEPT !.members = @ \cup {i}]
    OBVIOUS
  <2> QED BY <1>2, <2>1, <2>2 DEF GroupRow
<1>11. groups' = [groups EXCEPT ![g] = r]
  BY <1>3, <1>10
<1>12. /\ GroupsKept(p) /\ DOMAIN groups' = DOMAIN groups
       /\ \A h \in DOMAIN groups :
             /\ groups'[h].name = groups[h].name /\ groups'[h].email = groups[h].email
             /\ groups'[h].members = IF h = g THEN m ELSE groups[h].members
  <2>1. \A k \in Nat : k # i => (k \in r.members <=> k \in groups[g].members)
    BY <1>10
  <2>2. IsAccountOf(i, p) /\ g \in DOMAIN groups
    BY <1>2, <1>4
  <2>3. GroupsKept(p) /\ DOMAIN groups' = DOMAIN groups
        /\ \A h \in DOMAIN groups :
              /\ groups'[h].name = groups[h].name /\ groups'[h].email = groups[h].email
              /\ groups'[h].members = IF h = g THEN r.members ELSE groups[h].members
    <3>1. r \in GroupRow /\ r.name = groups[g].name /\ r.email = groups[g].email
      BY <1>10
    <3>2. groups' = [groups EXCEPT ![g] = r]
      BY <1>11
    <3> QED BY <2>1, <2>2, <3>1, <3>2, EdgesAreWritten
  <2> QED BY <2>3, <1>10
<1>13. AccountsKept(p)
  BY <1>1, NothingTouched
<1>14. j.ids \cup j.add \cup j.drop \subseteq DOMAIN groups'
  BY <1>4, <1>7, <1>12
<1>15. j.id # NoId => IsAccountOf(j.id, p)'
  BY <1>1, <1>2, <1>7, <1>9 DEF IsAccountOf, Ids
<1>16. ASSUME p \notin touched PROVE JobWell(p)'
  <2>1. /\ JobWell(p) /\ ~ProfileDiffers(accounts[i], job[p].want)
        /\ accounts[i].enabled = job[p].want.enabled
        /\ IF Scim THEN Joined(job[p]) ELSE Collected(job[p])
    BY <1>1, <1>2, <1>16 DEF DirInv, GoesWell, JobWell
  <2>2. Scim' <=> Scim
    BY <1>1 DEF Scim
  <2>3. GroupsOf(j.id)' = GroupsOf(i) \cup {g}
    BY <1>4, <1>7, <1>10, <1>12 DEF GroupsOf
  <2>4. Live(j.id)' /\ j.id # NoId /\ ~ProfileDiffers(accounts[j.id], j.want)'
        /\ accounts'[j.id].enabled = j.want.enabled
    BY <1>1, <1>2, <1>7, <2>1 DEF Live, Ids, ProfileDiffers
  <2>5. CASE Scim
    <3>1. Joined(job[p])
      BY <2>1, <2>5
    <3>2. j.add = {} /\ groups[g].name \in j.want.groups
      BY <1>3, <1>7, <3>1 DEF Joined
    <3>3. \A h \in DOMAIN groups : groups'[h].name = groups[h].name
      BY <1>12
    <3>4. GroupsOf(i) \subseteq DOMAIN groups
      BY DEF GroupsOf
    <3>5. j.at = "members" => j.todo = {}
      BY <1>5, <1>7
    <3>6. \A h \in j.drop : groups'[h].name \notin j.want.groups
      BY <1>4, <1>7, <3>1, <3>3 DEF Joined
    <3>7. \A h \in GroupsOf(i) \cup {g} : h \in j.drop \/ groups'[h].name \in j.want.groups
      BY <1>2, <1>4, <1>7, <3>1, <3>2, <3>3, <3>4 DEF Joined
    <3>8. \A n \in j.want.groups : n \in j.todo \/ \E h \in GroupsOf(i) \cup {g} : groups'[h].name = n
      <4> SUFFICES ASSUME NEW n \in j.want.groups, n \notin j.todo
                   PROVE  \E h \in GroupsOf(i) \cup {g} : groups'[h].name = n
        OBVIOUS
      <4>1. PICK h \in job[p].add \cup GroupsOf(i) : groups[h].name = n
        BY <1>2, <1>7, <3>1 DEF Joined
      <4>2. h \in GroupsOf(i) \cup {g}
        BY <1>3, <3>1, <4>1 DEF Joined
      <4> QED BY <1>4, <3>3, <3>4, <4>1, <4>2
    <3>9. j.todo \subseteq j.want.groups
      BY <1>7, <3>1 DEF Joined
    <3>10. Joined(j)'
      BY <2>3, <3>2, <3>5, <3>6, <3>7, <3>8, <3>9 DEF Joined
    <3> QED BY <1>5, <1>7, <1>9, <2>2, <2>4, <2>5, <3>10 DEF JobWell
  <2>6. CASE ~Scim
    <3>1. Collected(job[p])
      BY <2>1, <2>6
    <3>2. j.at = "members"
      BY <1>1, <1>5, <1>7, <3>1 DEF Collected
    <3>3. \A n : Found(n)' = Found(n)
      BY <1>1, <1>12 DEF Found, Called, Addressed
    <3>4. Collected(j)'
      BY <1>1, <1>2, <1>3, <1>7, <2>3, <3>1, <3>2, <3>3 DEF Collected
    <3> QED BY <1>7, <1>9, <2>2, <2>4, <2>6, <3>2, <3>4 DEF JobWell
  <2> QED BY <2>5, <2>6
<1>17. j.at # "write" /\ j.at # "create"
  BY <1>5, <1>7
<1> QED BY <1>1, <1>7, <1>8, <1>12, <1>13, <1>14, <1>15, <1>16, <1>17, JobsGoOn

LEMMA MembersAreRemoved ==
    ASSUME DirInv, NEW p \in Subjects, RemoveAtTarget(p)
    PROVE  DirInv'
<1>1. /\ job[p].at = "members" /\ job[p] \in JobRow /\ job[p] # NoJob /\ Live(job[p].id)
      /\ job[p].add = {}
      /\ UNCHANGED <<kind, wanted, pending, link, accounts, touched>>
  BY JobsOfRows DEF RemoveAtTarget
<1>2. PICK i \in Nat : i = job[p].id /\ i # NoId /\ IsAccountOf(i, p) /\ Live(i)
  <2>1. job[p].id \in Nat
    BY <1>1 DEF Live, Ids, DirInv, DirTypes
  <2> QED BY <1>1, <2>1, DirectoriesAssumption DEF DirInv, OwnAccounts
<1>3. PICK g \in job[p].drop :
         /\ groups' = [groups EXCEPT ![g].members = @ \ {i}]
         /\ job' = [job EXCEPT ![p].drop = @ \ {g}]
  BY <1>2 DEF RemoveAtTarget
<1>4. job[p].ids \cup job[p].add \cup job[p].drop \subseteq DOMAIN groups /\ g \in DOMAIN groups
  BY <1>1, <1>3 DEF DirInv, OwnAccounts
<1>5. PICK j : j = [job[p] EXCEPT !.drop = @ \ {g}]
  OBVIOUS
<1>6. /\ j \in JobRow /\ j.at = "members" /\ j.todo = job[p].todo /\ j.drop = job[p].drop \ {g}
      /\ j.ids = job[p].ids /\ j.add = {} /\ j.id = i
      /\ j.want = job[p].want /\ j.ext = job[p].ext
  BY <1>1, <1>2, <1>5 DEF JobRow
<1>7. job' = [job EXCEPT ![p] = j]
  BY <1>3, <1>5 DEF DirInv, DirTypes
<1>8. job'[p] = j
  BY <1>7 DEF DirInv, DirTypes
<1>9. PICK m \in SUBSET Nat, r \in GroupRow :
         /\ m = groups[g].members \ {i} /\ r = [groups[g] EXCEPT !.members = @ \ {i}]
         /\ r.members = m /\ r.name = groups[g].name /\ r.email = groups[g].email
  <2>1. groups[g] \in GroupRow
    BY <1>4 DEF DirInv, DirTypes
  <2>2. PICK r : r = [groups[g] EXCEPT !.members = @ \ {i}]
    OBVIOUS
  <2> QED BY <1>2, <2>1, <2>2 DEF GroupRow
<1>10. groups' = [groups EXCEPT ![g] = r]
  BY <1>3, <1>9
<1>11. /\ GroupsKept(p) /\ DOMAIN groups' = DOMAIN groups
       /\ \A h \in DOMAIN groups :
             /\ groups'[h].name = groups[h].name /\ groups'[h].email = groups[h].email
             /\ groups'[h].members = IF h = g THEN m ELSE groups[h].members
  <2>1. \A k \in Nat : k # i => (k \in r.members <=> k \in groups[g].members)
    BY <1>9
  <2>2. IsAccountOf(i, p) /\ g \in DOMAIN groups
    BY <1>2, <1>4
  <2>3. GroupsKept(p) /\ DOMAIN groups' = DOMAIN groups
        /\ \A h \in DOMAIN groups :
              /\ groups'[h].name = groups[h].name /\ groups'[h].email = groups[h].email
              /\ groups'[h].members = IF h = g THEN r.members ELSE groups[h].members
    <3>1. r \in GroupRow /\ r.name = groups[g].name /\ r.email = groups[g].email
      BY <1>9
    <3>2. groups' = [groups EXCEPT ![g] = r]
      BY <1>10
    <3> QED BY <2>1, <2>2, <3>1, <3>2, EdgesAreWritten
  <2> QED BY <2>3, <1>9
<1>12. AccountsKept(p)
  BY <1>1, NothingTouched
<1>13. j.ids \cup j.add \cup j.drop \subseteq DOMAIN groups'
  BY <1>4, <1>6, <1>11
<1>14. j.id # NoId => IsAccountOf(j.id, p)'
  BY <1>1, <1>2, <1>6, <1>8 DEF IsAccountOf, Ids
<1>15. ASSUME p \notin touched PROVE JobWell(p)'
  <2>1. /\ JobWell(p) /\ ~ProfileDiffers(accounts[i], job[p].want)
        /\ accounts[i].enabled = job[p].want.enabled
        /\ IF Scim THEN Joined(job[p]) ELSE Collected(job[p])
    BY <1>1, <1>2, <1>15 DEF DirInv, GoesWell, JobWell
  <2>2. Scim' <=> Scim
    BY <1>1 DEF Scim
  <2>3. GroupsOf(j.id)' = GroupsOf(i) \ {g}
    BY <1>4, <1>6, <1>9, <1>11 DEF GroupsOf
  <2>4. Live(j.id)' /\ j.id # NoId /\ ~ProfileDiffers(accounts[j.id], j.want)'
        /\ accounts'[j.id].enabled = j.want.enabled
    BY <1>1, <1>2, <1>6, <2>1 DEF Live, Ids, ProfileDiffers
  <2>5. CASE Scim
    <3>1. Joined(job[p])
      BY <2>1, <2>5
    <3>2. groups[g].name \notin j.want.groups /\ j.todo = {}
      BY <1>1, <1>3, <1>6, <3>1 DEF Joined
    <3>3. \A h \in DOMAIN groups : groups'[h].name = groups[h].name
      BY <1>11
    <3>4. GroupsOf(i) \subseteq DOMAIN groups
      BY DEF GroupsOf
    <3>5. \A h \in j.drop : groups'[h].name \notin j.want.groups
      BY <1>4, <1>6, <3>1, <3>3 DEF Joined
    <3>6. \A h \in GroupsOf(i) \ {g} : h \in j.drop \/ groups'[h].name \in j.want.groups
      BY <1>2, <1>6, <3>1, <3>3, <3>4 DEF Joined
    <3>7. \A n \in j.want.groups : \E h \in GroupsOf(i) \ {g} : groups'[h].name = n
      <4> SUFFICES ASSUME NEW n \in j.want.groups
                   PROVE  \E h \in GroupsOf(i) \ {g} : groups'[h].name = n
        OBVIOUS
      <4>1. PICK h \in GroupsOf(i) : groups[h].name = n
        BY <1>1, <1>2, <1>6, <3>1, <3>2 DEF Joined
      <4> QED BY <3>2, <3>3, <3>4, <4>1
    <3>8. Joined(j)'
      BY <1>6, <2>3, <3>2, <3>5, <3>6, <3>7 DEF Joined
    <3> QED BY <1>6, <1>8, <2>2, <2>4, <2>5, <3>8 DEF JobWell
  <2>6. CASE ~Scim
    <3>1. Collected(job[p])
      BY <2>1, <2>6
    <3>2. \A n : Found(n)' = Found(n)
      BY <1>1, <1>11 DEF Found, Called, Addressed
    <3>3. Collected(j)'
      BY <1>1, <1>2, <1>3, <1>6, <2>3, <3>1, <3>2 DEF Collected
    <3> QED BY <1>6, <1>8, <2>2, <2>4, <2>6, <3>3 DEF JobWell
  <2> QED BY <2>5, <2>6
<1> QED BY <1>1, <1>6, <1>7, <1>11, <1>12, <1>13, <1>14, <1>15, JobsGoOn

(* What the job that ends well has written is what the row asks for, if    *)
(* the row has not changed since the job read it.                          *)
LEMMA JobsCommit ==
    ASSUME DirInv, NEW p \in Subjects, CommitJob(p)
    PROVE  DirInv'
<1>1. /\ job[p].at = "members" /\ job[p].add = {} /\ job[p].drop = {}
      /\ job[p] \in JobRow /\ job[p] # NoJob
      /\ link' = [link EXCEPT ![p] = job[p].id] /\ job' = [job EXCEPT ![p] = NoJob]
      /\ UNCHANGED <<kind, wanted, pending, accounts, groups, touched>>
  BY JobsOfRows DEF CommitJob
<1>2. /\ \A q \in Subjects : job'[q] = IF q = p THEN NoJob ELSE job[q]
      /\ \A q \in Subjects : link'[q] = IF q = p THEN job[p].id ELSE link[q]
      /\ job[p].id \in Nat \cup {NoId}
  BY <1>1 DEF DirInv, DirTypes, JobRow
<1>3. DirTypes'
  BY <1>1, <1>2 DEF DirInv, DirTypes
<1>4. job[p].id # NoId => IsAccountOf(job[p].id, p)
  BY <1>1 DEF DirInv, OwnAccounts
<1>5. OwnAccounts'
  BY <1>1, <1>2, <1>4 DEF DirInv, OwnAccounts, IsAccountOf, Ids, Live
<1>6. JobsReadLast'
  BY <1>1, <1>2 DEF DirInv, JobsReadLast
<1>7. ASSUME NEW q \in Subjects PROVE GoesWell(q)'
  <2>1. CASE q = p
    <3> SUFFICES ASSUME p \notin touched, LeftAlone(p)' PROVE Shown(p)'
      BY <1>1, <1>2, <2>1 DEF GoesWell, Shown
    <3>1. PICK i : i = job[p].id
      OBVIOUS
    <3>2. /\ Live(i) /\ accounts[i].user = p /\ accounts[i].enabled = job[p].want.enabled
          /\ ~ProfileDiffers(accounts[i], job[p].want)
          /\ IF Scim THEN Joined(job[p]) ELSE Collected(job[p])
      BY <1>1, <1>4, <3>1 DEF DirInv, GoesWell, JobWell, IsAccountOf
    <3>3. job[p].want = wanted[p] /\ wanted'[p] = wanted[p] /\ link'[p] = i
      BY <1>1, <1>2, <3>1 DEF LeftAlone, DirInv, JobsReadLast
    <3>4. BelongsAsWanted(i, wanted[p])
      <4>1. CASE Scim
        <5>1. \A n : Found(n) = Called(n)
          BY <4>1 DEF Found, Scim
        <5>2. job[p].todo = {}
          BY <1>1, <3>2, <4>1 DEF Joined
        <5>3. \A g \in GroupsOf(i) : groups[g].name \in wanted[p].groups /\ g \in Called(groups[g].name)
          BY <1>1, <3>1, <3>2, <3>3, <4>1 DEF Joined, Called, GroupsOf
        <5>4. \A n \in wanted[p].groups : \E g \in GroupsOf(i) : groups[g].name = n
          BY <1>1, <3>1, <3>2, <3>3, <4>1, <5>2 DEF Joined
        <5> QED BY <5>1, <5>3, <5>4 DEF BelongsAsWanted, Called
      <4>2. CASE ~Scim
        <5>1. /\ GroupsOf(i) = job[p].ids
              /\ job[p].ids \subseteq UNION {Found(n) : n \in wanted[p].groups}
              /\ \A n \in wanted[p].groups : job[p].ids \cap Found(n) # {}
          BY <1>1, <3>1, <3>2, <3>3, <4>2 DEF Collected
        <5> QED BY <5>1 DEF BelongsAsWanted
      <4> QED BY <4>1, <4>2
    <3>5. /\ Live(link[p])' /\ accounts'[link'[p]] = accounts[i]
          /\ (BelongsAsWanted(i, wanted[p]) => BelongsAsWanted(link[p], wanted[p])')
      BY <1>1, <3>2, <3>3 DEF Live, Ids, BelongsAsWanted, Found, Called, Addressed, GroupsOf
    <3> QED BY <3>2, <3>3, <3>4, <3>5 DEF Shown, ProfileDiffers
  <2>2. CASE q # p
    BY <1>1, <1>2, <2>2, NothingTouched, OthersGoWell
  <2> QED BY <2>1, <2>2
<1> QED BY <1>3, <1>5, <1>6, <1>7 DEF DirInv

LEMMA DirSteps == DirInv /\ [DirectoriesNext]_dvars => DirInv'
<1> SUFFICES ASSUME DirInv, [DirectoriesNext]_dvars PROVE DirInv'
  OBVIOUS
<1>1. CASE UNCHANGED dvars
  <2>1. UNCHANGED <<kind, wanted, pending, link, job, accounts, groups, touched>>
    BY <1>1 DEF dvars
  <2>2. DirTypes' /\ OwnAccounts' /\ JobsReadLast'
    BY <2>1 DEF DirInv, DirTypes, OwnAccounts, IsAccountOf, Ids, Live, JobsReadLast
  <2>3. ASSUME NEW p \in Subjects PROVE GoesWell(p)'
    <3>1. \A n : Found(n)' = Found(n)
      BY <2>1 DEF Found, Called, Addressed
    <3>2. \A i : GroupsOf(i)' = GroupsOf(i) /\ (Live(i)' <=> Live(i))
      BY <2>1 DEF GroupsOf, Live, Ids
    <3>3. JobWell(p) => JobWell(p)'
      BY <2>1, <3>1, <3>2 DEF JobWell, Joined, Collected, ProfileDiffers, Scim
    <3>4. Shown(p) => Shown(p)'
      BY <2>1, <3>1, <3>2 DEF Shown, LeftAlone, BelongsAsWanted, ProfileDiffers
    <3> QED BY <2>1, <3>3, <3>4 DEF DirInv, GoesWell
  <2> QED BY <2>2, <2>3 DEF DirInv
<1>2. ASSUME NEW p \in Subjects, JobStep(p) PROVE DirInv'
  <2>1. Refused(p) => FailJob(p)
    BY DEF Refused
  <2> QED BY <1>2, <2>1, AccountsAreFound, AccountsAreCreated, AccountsAreUpdated, FlagsAreSet,
             GroupsAreLookedUp, GroupsAreCreated, MembershipsAreRead, ScimMembershipsAreRead,
             MembersAreAdded, MembersAreRemoved, JobsCommit, JobsFail DEF JobStep
<1>3. ASSUME NEW p \in Subjects, StartJob(p) \/ RequestFails(p) \/ EditPerson(p) \/ MeddleWithTarget(p)
      PROVE  DirInv'
  <2>1. RequestFails(p) => FailJob(p)
    BY DEF RequestFails
  <2> QED BY <1>3, <2>1, JobsStart, JobsFail, RowsAreChanged, TargetsAreMeddledWith
<1> QED BY <1>1, <1>2, <1>3 DEF DirectoriesNext

(* Once a person's job has ended well, and neither the row nor the account *)
(* was touched since it began, the target shows what the row asks for:     *)
(* whatever other people's jobs, failed attempts and lost answers came in  *)
(* between (apply of the Keycloak, Entra ID, Google Workspace and SCIM     *)
(* connectors).                                                            *)
THEOREM WhatIsSyncedIsShown == DirectoriesSpec => []SyncedMeansShown
<1>1. DirInv => SyncedMeansShown
  BY DEF DirInv, SyncedMeansShown, GoesWell, Shown, LeftAlone
<1> QED BY <1>1, DirStart, DirSteps, PTL DEF DirectoriesSpec

-----------------------------------------------------------------------------
(* The nightly pass.                                                       *)

(* What holds at 0 and passes from each number to the next holds up to n.  *)
LEMMA UpTo ==
    ASSUME NEW n \in Nat, NEW T,
           0 \in T,
           \A k \in 0..n : k # n /\ k \in T => k + 1 \in T
    PROVE  0..n \subseteq T
<1> DEFINE B == {k \in 0..n : k \notin T}
<1> SUFFICES ASSUME B # {} PROVE FALSE
  OBVIOUS
<1>1. B \subseteq Nat
  OBVIOUS
<1>2. PICK x \in B : \A y \in B : <<y, x>> \notin OpToRel(<, Nat)
  BY <1>1, WFMin, NatLessThanWellFounded
<1>3. x # 0 /\ x - 1 \in 0..n /\ x - 1 < x /\ x - 1 # n
  OBVIOUS
<1>4. <<x - 1, x>> \in OpToRel(<, Nat)
  BY <1>1, <1>3 DEF OpToRel
<1>5. x - 1 \in T
  BY <1>2, <1>3, <1>4
<1>6. (x - 1) + 1 \in T
  BY <1>3, <1>5
<1>7. (x - 1) + 1 = x
  OBVIOUS
<1> QED BY <1>6, <1>7

(* The elements of s that are in C, collected as a listing does it.        *)
SelectsTo(F, n, s, C) ==
    F = [i \in 0..n |->
           IF i = 0 THEN << >> ELSE IF s[i] \in C THEN Append(F[i - 1], s[i]) ELSE F[i - 1]]

LEMMA SelectionsUnfold ==
    ASSUME NEW n \in Nat, NEW s, NEW C, NEW F, SelectsTo(F, n, s, C)
    PROVE  /\ F[0] = << >>
           /\ \A k \in 0..n : k # n =>
                /\ k + 1 \in 0..n
                /\ F[k + 1] = IF s[k + 1] \in C THEN Append(F[k], s[k + 1]) ELSE F[k]
<1>1. \A i \in 0..n :
         F[i] = IF i = 0 THEN << >> ELSE IF s[i] \in C THEN Append(F[i - 1], s[i]) ELSE F[i - 1]
  BY DEF SelectsTo
<1>2. 0 \in 0..n
  OBVIOUS
<1>3. ASSUME NEW k \in 0..n, k # n
      PROVE  k + 1 \in 0..n /\ F[k + 1] = IF s[k + 1] \in C THEN Append(F[k], s[k + 1]) ELSE F[k]
  <2>1. k + 1 \in 0..n /\ k + 1 # 0 /\ (k + 1) - 1 = k
    BY <1>3
  <2> QED BY <1>1, <2>1
<1> QED BY <1>1, <1>2, <1>3

LEMMA SelectionsExist ==
    ASSUME NEW n \in Nat, NEW s, NEW C
    PROVE  \E F : SelectsTo(F, n, s, C)
<1> DEFINE T == {k \in 0..n : \E F : SelectsTo(F, k, s, C)}
<1>1. 0 \in T
  <2> DEFINE F == [k \in 0..0 |-> << >>]
  <2>1. SelectsTo(F, 0, s, C)
    BY DEF SelectsTo
  <2> QED BY <2>1
<1>2. ASSUME NEW k \in 0..n, k # n, k \in T
      PROVE  k + 1 \in T
  <2>1. PICK F : SelectsTo(F, k, s, C)
    BY <1>2
  <2> DEFINE Next1 == IF s[k + 1] \in C THEN Append(F[k], s[k + 1]) ELSE F[k]
             G == [i \in 0..(k + 1) |-> IF i = k + 1 THEN Next1 ELSE F[i]]
  <2>2. \A i \in 0..k :
           F[i] = IF i = 0 THEN << >> ELSE IF s[i] \in C THEN Append(F[i - 1], s[i]) ELSE F[i - 1]
    BY <2>1 DEF SelectsTo
  <2>3. \A i \in 0..(k + 1) :
           G[i] = IF i = 0 THEN << >> ELSE IF s[i] \in C THEN Append(G[i - 1], s[i]) ELSE G[i - 1]
    <3> TAKE i \in 0..(k + 1)
    <3>1. CASE i = k + 1
      <4>1. i # 0 /\ i - 1 = k /\ k \in 0..(k + 1) /\ k # k + 1
        BY <3>1
      <4>2. G[i] = Next1 /\ G[k] = F[k]
        BY <3>1, <4>1
      <4> QED BY <3>1, <4>1, <4>2
    <3>2. CASE i # k + 1
      <4>1. i \in 0..k
        BY <3>2
      <4>2. G[i] = F[i]
        BY <3>2
      <4>3. i # 0 => i - 1 \in 0..(k + 1) /\ i - 1 # k + 1 /\ G[i - 1] = F[i - 1]
        BY <4>1
      <4> QED BY <2>2, <4>1, <4>2, <4>3
    <3> QED BY <3>1, <3>2
  <2>4. SelectsTo(G, k + 1, s, C)
    BY <2>3 DEF SelectsTo
  <2> QED BY <1>2, <2>4
<1>3. 0..n \subseteq T
  <2> HIDE DEF T
  <2> QED BY <1>1, <1>2, UpTo
<1> QED BY <1>3

(* What is collected is in C, and whoever is in C is collected.            *)
IsSelection(all, s, C) ==
    /\ \A j \in DOMAIN all : all[j] \in C
    /\ \A i \in DOMAIN s : s[i] \in C => \E j \in DOMAIN all : all[j] = s[i]

LEMMA SelectionsAreWhole ==
    ASSUME NEW U, NEW s \in Seq(U), NEW C, NEW F, SelectsTo(F, Len(s), s, C)
    PROVE  F[Len(s)] \in Seq(U) /\ IsSelection(F[Len(s)], s, C)
<1> DEFINE T == {k \in 0..Len(s) :
                   /\ F[k] \in Seq(U)
                   /\ \A j \in DOMAIN F[k] : F[k][j] \in C
                   /\ \A i \in 1..k : s[i] \in C => \E j \in DOMAIN F[k] : F[k][j] = s[i]}
<1>0. /\ F[0] = << >>
      /\ \A k \in 0..Len(s) : k # Len(s) =>
            /\ k + 1 \in 0..Len(s)
            /\ F[k + 1] = IF s[k + 1] \in C THEN Append(F[k], s[k + 1]) ELSE F[k]
  <2>1. PICK n \in Nat : n = Len(s)
    OBVIOUS
  <2>2. SelectsTo(F, n, s, C)
    BY <2>1
  <2> QED BY <2>1, <2>2, SelectionsUnfold
<1>1. 0 \in T
  <2>1. F[0] = << >> /\ 0 \in 0..Len(s)
    BY <1>0
  <2>2. << >> \in Seq(U) /\ DOMAIN << >> = {} /\ 1..0 = {}
    OBVIOUS
  <2> QED BY <2>1, <2>2
<1>2. ASSUME NEW k \in 0..Len(s), k # Len(s), k \in T
      PROVE  k + 1 \in T
  <2>1. k + 1 \in 0..Len(s) /\ F[k + 1] = IF s[k + 1] \in C THEN Append(F[k], s[k + 1]) ELSE F[k]
    BY <1>0, <1>2
  <2>2. k + 1 \in 1..Len(s) /\ s[k + 1] \in U
    BY <1>2
  <2>3. /\ F[k] \in Seq(U) /\ \A j \in DOMAIN F[k] : F[k][j] \in C
        /\ \A i \in 1..k : s[i] \in C => \E j \in DOMAIN F[k] : F[k][j] = s[i]
    BY <1>2
  <2>4. \A i \in 1..(k + 1) : i \in 1..k \/ i = k + 1
    OBVIOUS
  <2>5. CASE s[k + 1] \in C
    <3>1. PICK u \in U : u = s[k + 1]
      BY <2>2
    <3>2. /\ F[k + 1] \in Seq(U) /\ DOMAIN F[k + 1] = DOMAIN F[k] \cup {Len(F[k]) + 1}
          /\ F[k + 1][Len(F[k]) + 1] = u
          /\ \A j \in DOMAIN F[k] : F[k + 1][j] = F[k][j]
      <4>1. PICK f \in Seq(U) : f = F[k]
        BY <2>3
      <4>2. F[k + 1] = Append(f, u)
        BY <2>1, <2>5, <3>1, <4>1
      <4> QED BY <4>1, <4>2
    <3>3. \A j \in DOMAIN F[k + 1] : F[k + 1][j] \in C
      BY <2>3, <2>5, <3>1, <3>2
    <3>4. \A i \in 1..(k + 1) : s[i] \in C => \E j \in DOMAIN F[k + 1] : F[k + 1][j] = s[i]
      BY <2>3, <2>4, <3>1, <3>2
    <3> QED BY <2>1, <3>2, <3>3, <3>4
  <2>6. CASE s[k + 1] \notin C
    <3>1. F[k + 1] = F[k]
      BY <2>1, <2>6
    <3> QED BY <2>1, <2>3, <2>4, <2>6, <3>1
  <2> QED BY <2>5, <2>6
<1>3. 0..Len(s) \subseteq T
  <2> HIDE DEF T
  <2> QED BY <1>1, <1>2, UpTo
<1>4. Len(s) \in T
  BY <1>3
<1> QED BY <1>4 DEF IsSelection

(* A listing has the people of the status, and all of them.                *)
LEMMA ListingsAreWhole ==
    ASSUME NEW st
    PROVE  /\ OfStatus(st) \in Seq(Usernames)
           /\ \A j \in DOMAIN OfStatus(st) : staff[OfStatus(st)[j]].status = st
           /\ \A u \in Usernames : staff[u].status = st =>
                 \E j \in DOMAIN OfStatus(st) : OfStatus(st)[j] = u
<1>1. PICK C : C = {u \in Usernames : staff[u].status = st}
  OBVIOUS
<1> DEFINE Defined(F) ==
      F = [i \in 0..Len(Roster) |->
             IF i = 0 THEN << >>
             ELSE IF Roster[i] \in C THEN Append(F[i - 1], Roster[i]) ELSE F[i - 1]]
<1>2. Roster \in Seq(Usernames) /\ Len(Roster) \in Nat
  BY RosterAssumption
<1>3. \E F : SelectsTo(F, Len(Roster), Roster, C)
  BY <1>2, SelectionsExist
<1>4. \A F : Defined(F) <=> SelectsTo(F, Len(Roster), Roster, C)
  BY DEF SelectsTo
<1>5. OfStatus(st) = (CHOOSE F : Defined(F))[Len(Roster)]
  BY <1>1 DEF OfStatus, Listed
<1>6. PICK F : SelectsTo(F, Len(Roster), Roster, C) /\ OfStatus(st) = F[Len(Roster)]
  <2>1. Defined(CHOOSE F : Defined(F))
    BY <1>3, <1>4
  <2> QED BY <1>4, <1>5, <2>1
<1>7. OfStatus(st) \in Seq(Usernames) /\ IsSelection(OfStatus(st), Roster, C)
  BY <1>2, <1>6, SelectionsAreWhole
<1>8. \A u \in Usernames : \E i \in DOMAIN Roster : Roster[i] = u
  BY DEF Usernames
<1> QED BY <1>1, <1>7, <1>8 DEF IsSelection

-----------------------------------------------------------------------------
(* The nightly pass.                                                       *)

WithRows == {u \in Usernames : staff[u] # NoRow}

PassRow ==
    [step : {"page", "find", "compare", "drain", "extras", "report"},
     status : 1..Len(WalkStatuses), offset : Nat,
     rows : Seq([name : Usernames, row : WalkedRows]), at : Nat, seen : Accounts,
     local : SUBSET Usernames, extras : SUBSET Usernames]

DriftTypes ==
    /\ staff \in [Usernames -> WalkedRows \cup {NoRow}]
    /\ inMaster \in [Usernames -> Accounts]
    /\ repair \subseteq WithRows
    /\ pass \in PassRow \cup {NoPass}
    /\ pass.step \in {"find", "compare"} =>
          /\ pass.at \in DOMAIN pass.rows
          /\ \A i \in DOMAIN pass.rows : pass.rows[i].name \in WithRows

Repaired(u) == inMaster[u] = DesiredAccount(staff[u])

SeenTo(u) == u \in repair \/ Repaired(u)

Walking == pass.step \in {"page", "find", "compare"}

(* As far as the walk has come everybody is as wanted or has a repair      *)
(* queued.                                                                 *)
WalkHolds ==
    /\ Walking =>
          /\ \A k \in 1..(pass.status - 1) : \A u \in Usernames :
                staff[u].status = WalkStatuses[k] => SeenTo(u)
          /\ \A i \in DOMAIN OfStatus(WalkStatuses[pass.status]) :
                i <= pass.offset => SeenTo(OfStatus(WalkStatuses[pass.status])[i])
    /\ pass.step \in {"find", "compare"} =>
          /\ pass.rows = WalkedPage(WalkStatuses[pass.status], pass.offset)
          /\ \A i \in DOMAIN pass.rows : i < pass.at => SeenTo(pass.rows[i].name)
    /\ pass.step = "compare" => pass.seen = inMaster[Walked.name] /\ pass.seen.there
    /\ pass.step = "drain" => \A u \in WithRows : SeenTo(u)
    /\ pass.step \in {"extras", "report"} =>
          /\ \A u \in WithRows : Repaired(u)
          /\ pass.local = WithRows
    /\ pass.step = "report" => pass.extras \cap pass.local = {}

DriftInv == DriftTypes /\ (still => WalkHolds)

PageRow == [name : Usernames, row : WalkedRows]

LEMMA RowsOfStatuses ==
    /\ \A row \in WalkedRows : row # NoRow /\ \E k \in DOMAIN WalkStatuses : row.status = WalkStatuses[k]
    /\ NoRow.status = "absent"
    /\ \A k \in DOMAIN WalkStatuses : WalkStatuses[k] # "absent"
<1>1. /\ NoRow.status = "absent"
      /\ \A k \in DOMAIN WalkStatuses : WalkStatuses[k] # "absent"
  BY RosterAssumption DEF NoRow
<1>2. \A row \in WalkedRows : \E k \in DOMAIN WalkStatuses : row.status = WalkStatuses[k]
  BY DEF WalkedRows
<1> QED BY <1>1, <1>2

LEMMA AccountsAreDesired ==
    ASSUME NEW row \in WalkedRows
    PROVE  DesiredAccount(row) \in Accounts
BY DEF WalkedRows, DesiredAccount, Accounts

(* A page is the listing's part behind the offset, and one that is not     *)
(* full ends it.                                                           *)
LEMMA PagesAreCut ==
    ASSUME DriftTypes, NEW k \in DOMAIN WalkStatuses, NEW offset \in Nat
    PROVE  /\ WalkedPage(WalkStatuses[k], offset) \in Seq(PageRow)
           /\ \A i \in DOMAIN WalkedPage(WalkStatuses[k], offset) :
                 /\ offset + i \in DOMAIN OfStatus(WalkStatuses[k])
                 /\ WalkedPage(WalkStatuses[k], offset)[i] =
                      [name |-> OfStatus(WalkStatuses[k])[offset + i],
                       row |-> staff[OfStatus(WalkStatuses[k])[offset + i]]]
                 /\ WalkedPage(WalkStatuses[k], offset)[i].name \in WithRows
           /\ Len(WalkedPage(WalkStatuses[k], offset)) <= WalkPage
           /\ \A j \in DOMAIN OfStatus(WalkStatuses[k]) :
                 \/ j <= offset \/ j - offset \in DOMAIN WalkedPage(WalkStatuses[k], offset)
                 \/ Len(WalkedPage(WalkStatuses[k], offset)) = WalkPage /\ j > offset + WalkPage
<1>1. PICK all \in Seq(Usernames) : all = OfStatus(WalkStatuses[k])
  BY ListingsAreWhole
<1>2. \A j \in DOMAIN all : all[j] \in WithRows /\ staff[all[j]] \in WalkedRows
  <2>1. \A j \in DOMAIN all : staff[all[j]].status = WalkStatuses[k]
    BY <1>1, ListingsAreWhole
  <2>2. \A j \in DOMAIN all : all[j] \in Usernames
    BY <1>1
  <2> QED BY <2>1, <2>2, RowsOfStatuses DEF DriftTypes, WithRows
<1>3. PICK last \in Nat : last = IF offset + WalkPage < Len(all) THEN offset + WalkPage ELSE Len(all)
  BY DriftAssumption
<1>4. PICK n \in Nat : n = IF last - offset > 0 THEN last - offset ELSE 0
  BY <1>3
<1>5. PICK page : page = [i \in 1..n |-> [name |-> all[offset + i], row |-> staff[all[offset + i]]]]
  OBVIOUS
<1>6. WalkedPage(WalkStatuses[k], offset) = page
  <2>1. 1..(last - offset) = 1..n
    BY <1>4
  <2> QED BY <1>1, <1>3, <1>5, <2>1 DEF WalkedPage
<1>7. \A i \in 1..n : offset + i \in DOMAIN all
  BY <1>3, <1>4
<1>8. \A i \in 1..n : page[i] \in PageRow /\ page[i].name \in WithRows
  BY <1>2, <1>5, <1>7 DEF PageRow, WithRows
<1>9. page \in Seq(PageRow) /\ DOMAIN page = 1..n /\ Len(page) = n
  <2>1. page \in [1..n -> PageRow]
    BY <1>5, <1>8
  <2> QED BY <1>4, <2>1
<1>10. n <= WalkPage /\ \A j \in DOMAIN all : j <= offset \/ j - offset \in 1..n
                                              \/ (n = WalkPage /\ j > offset + WalkPage)
  <2>1. PICK size \in Nat : size = Len(all) /\ DOMAIN all = 1..size
    BY <1>1
  <2>2. WalkPage \in Nat
    BY DriftAssumption
  <2>3. n <= WalkPage
    BY <1>3, <1>4, <2>1, <2>2
  <2>4. ASSUME NEW j \in 1..size, ~(j <= offset), j - offset \notin 1..n
        PROVE  n = WalkPage /\ j > offset + WalkPage
    <3>1. j - offset > n
      BY <1>4, <2>4
    <3>2. last < size
      BY <1>3, <1>4, <2>1, <2>2, <3>1
    <3> QED BY <1>3, <1>4, <2>1, <2>2, <3>1, <3>2
  <2> QED BY <2>1, <2>3, <2>4
<1> QED BY <1>1, <1>5, <1>6, <1>7, <1>8, <1>9, <1>10

(* A status is done.                                                       *)
LEMMA StatusesEnd ==
    ASSUME DriftInv, Walking, pass' = NextDriftStatus,
           repair \subseteq repair', repair' \subseteq WithRows, UNCHANGED <<staff, inMaster, still>>,
           still => \A j \in DOMAIN OfStatus(WalkStatuses[pass.status]) :
                      \/ OfStatus(WalkStatuses[pass.status])[j] \in repair'
                      \/ Repaired(OfStatus(WalkStatuses[pass.status])[j])
    PROVE  DriftInv'
<1>1. /\ pass \in PassRow /\ pass.status \in 1..Len(WalkStatuses) /\ Len(WalkStatuses) \in Nat
      /\ DOMAIN WalkStatuses = 1..Len(WalkStatuses) /\ pass.step # "drain"
  BY RosterAssumption DEF Walking, DriftInv, DriftTypes, NoPass, PassRow
<1>2. CASE pass.status < Len(WalkStatuses)
  <2>1. PICK st \in 1..Len(WalkStatuses) : st = pass.status + 1
    BY <1>1, <1>2
  <2>2. /\ pass' \in PassRow /\ pass'.step = "page" /\ pass'.status = pass.status + 1 /\ pass'.offset = 0
    <3>1. pass' = [pass EXCEPT !.step = "page", !.status = st, !.offset = 0]
      BY <1>2, <2>1 DEF NextDriftStatus
    <3>2. [pass EXCEPT !.step = "page", !.status = st, !.offset = 0] \in PassRow
      BY <1>1, <2>1 DEF PassRow
    <3>3. pass'.step = "page" /\ pass'.status = st /\ pass'.offset = 0
      BY <1>1, <3>1 DEF PassRow
    <3> QED BY <2>1, <3>1, <3>2, <3>3
  <2>3. DriftTypes'
    BY <2>2 DEF DriftInv, DriftTypes, WithRows
  <2>4. ASSUME still PROVE WalkHolds'
    <3>1. ASSUME NEW k \in 1..pass.status, NEW u \in Usernames, staff[u].status = WalkStatuses[k]
          PROVE  u \in repair' \/ Repaired(u)
      <4>1. CASE k = pass.status
        <5>1. PICK j \in DOMAIN OfStatus(WalkStatuses[pass.status]) : OfStatus(WalkStatuses[pass.status])[j] = u
          BY <3>1, <4>1, ListingsAreWhole
        <5> QED BY <2>4, <5>1
      <4>2. CASE k # pass.status
        <5>1. k \in 1..(pass.status - 1)
          BY <1>1, <4>2
        <5>2. SeenTo(u)
          BY <2>4, <3>1, <5>1 DEF DriftInv, WalkHolds
        <5> QED BY <5>2 DEF SeenTo
      <4> QED BY <4>1, <4>2
    <3>2. pass'.status - 1 = pass.status
      BY <1>1, <2>2
    <3>3. \A k \in 1..(pass'.status - 1) : \A u \in Usernames :
             staff'[u].status = WalkStatuses[k] => (u \in repair' \/ inMaster'[u] = DesiredAccount(staff'[u]))
      BY <3>1, <3>2 DEF Repaired
    <3>4. \A j \in DOMAIN OfStatus(WalkStatuses[pass.status])' : ~(j <= pass'.offset)
      <4>1. OfStatus(WalkStatuses[pass.status])' \in Seq(Usernames)
        <5>1. PICK next : next = WalkStatuses[pass'.status]
          OBVIOUS
        <5>2. OfStatus(next)' = OfStatus(next)
          BY DEF OfStatus
        <5> QED BY <5>1, <5>2, ListingsAreWhole
      <4> QED BY <2>2, <4>1
    <3> QED BY <2>2, <3>3, <3>4 DEF WalkHolds, SeenTo, Repaired, Walking
  <2> QED BY <2>3, <2>4 DEF DriftInv
<1>3. CASE ~(pass.status < Len(WalkStatuses))
  <2>1. pass' = [pass EXCEPT !.step = "drain"]
    BY <1>3 DEF NextDriftStatus
  <2>2. pass' \in PassRow /\ pass'.step = "drain"
    BY <1>1, <2>1 DEF PassRow
  <2>3. DriftTypes'
    BY <2>2 DEF DriftInv, DriftTypes, WithRows
  <2>4. ASSUME still, NEW u \in WithRows
        PROVE  u \in repair' \/ Repaired(u)
    <3>1. u \in Usernames /\ staff[u] \in WalkedRows
      BY DEF WithRows, DriftInv, DriftTypes
    <3>2. PICK k \in 1..Len(WalkStatuses) : staff[u].status = WalkStatuses[k]
      BY <1>1, <3>1, RowsOfStatuses
    <3>3. CASE k = pass.status
      <4>1. PICK j \in DOMAIN OfStatus(WalkStatuses[pass.status]) : OfStatus(WalkStatuses[pass.status])[j] = u
        BY <3>1, <3>2, <3>3, ListingsAreWhole
      <4> QED BY <2>4, <4>1
    <3>4. CASE k # pass.status
      <4>1. k \in 1..(pass.status - 1)
        BY <1>1, <1>3, <3>4
      <4>2. SeenTo(u)
        BY <2>4, <3>1, <3>2, <4>1 DEF DriftInv, WalkHolds
      <4> QED BY <4>2 DEF SeenTo
    <3> QED BY <3>3, <3>4
  <2>5. still => WalkHolds'
    BY <2>2, <2>4 DEF WalkHolds, SeenTo, Repaired, Walking, WithRows
  <2> QED BY <2>3, <2>5 DEF DriftInv
<1> QED BY <1>2, <1>3

LEMMA RowsInHand ==
    ASSUME DriftInv, pass.step \in {"find", "compare"}
    PROVE  /\ pass \in PassRow /\ Walking /\ pass.at \in 1..Len(pass.rows) /\ Len(pass.rows) \in Nat
           /\ DOMAIN pass.rows = 1..Len(pass.rows) /\ pass.at \in Nat
           /\ Walked.name \in WithRows /\ Walked.row \in WalkedRows
           /\ pass.status \in DOMAIN WalkStatuses
<1>1. pass \in PassRow /\ pass.at \in DOMAIN pass.rows
  BY DEF DriftInv, DriftTypes, NoPass
<1>2. pass.rows \in Seq(PageRow)
  BY <1>1 DEF PassRow, PageRow
<1>3. DOMAIN pass.rows = 1..Len(pass.rows) /\ Len(pass.rows) \in Nat /\ pass.rows[pass.at] \in PageRow
  BY <1>1, <1>2
<1>4. DOMAIN WalkStatuses = 1..Len(WalkStatuses)
  BY RosterAssumption
<1> QED BY <1>1, <1>3, <1>4 DEF Walked, Walking, DriftInv, DriftTypes, PageRow, PassRow

(* A row is seen to.                                                       *)
LEMMA RowsAreDone ==
    ASSUME DriftInv, pass.step \in {"find", "compare"}, pass' = DriftOnward,
           repair \subseteq repair', repair' \subseteq WithRows, UNCHANGED <<staff, inMaster, still>>,
           still => Walked.name \in repair' \/ Repaired(Walked.name)
    PROVE  DriftInv'
<1>1. /\ pass \in PassRow /\ Walking /\ pass.at \in 1..Len(pass.rows) /\ Len(pass.rows) \in Nat
      /\ DOMAIN pass.rows = 1..Len(pass.rows) /\ pass.at \in Nat
      /\ pass.status \in DOMAIN WalkStatuses
  BY RowsInHand
<1>2. PICK st : st = WalkStatuses[pass.status]
  OBVIOUS
<1>3. PICK all : all = OfStatus(st)
  OBVIOUS
<1>4. PICK offset \in Nat : offset = pass.offset
  BY <1>1 DEF PassRow
<1>5. PICK size \in Nat, at \in Nat : size = Len(pass.rows) /\ at = pass.at /\ at \in 1..size
  BY <1>1
<1>6. ASSUME still, NEW i \in 1..size, i <= at
      PROVE  pass.rows[i].name \in repair' \/ Repaired(pass.rows[i].name)
  <2>1. CASE i < at
    BY <1>1, <1>5, <1>6, <2>1 DEF DriftInv, WalkHolds, SeenTo
  <2>2. CASE i = at
    BY <1>5, <1>6, <2>2 DEF Walked
  <2> QED BY <1>6, <2>1, <2>2
<1>7. still =>
        /\ pass.rows = WalkedPage(st, offset)
        /\ \A j \in DOMAIN all : j <= offset => all[j] \in repair' \/ Repaired(all[j])
        /\ \A k \in 1..(pass.status - 1) : \A u \in Usernames :
              staff[u].status = WalkStatuses[k] => u \in repair' \/ Repaired(u)
  BY <1>1, <1>2, <1>3, <1>4 DEF DriftInv, WalkHolds, SeenTo
<1>8. still =>
        /\ \A i \in 1..size : offset + i \in DOMAIN all /\ pass.rows[i].name = all[offset + i]
        /\ size <= WalkPage
        /\ \A j \in DOMAIN all : j <= offset \/ j - offset \in 1..size
                                 \/ (size = WalkPage /\ j > offset + WalkPage)
  <2>1. DriftTypes
    BY DEF DriftInv
  <2> QED BY <1>1, <1>2, <1>3, <1>4, <1>5, <1>7, <2>1, PagesAreCut
<1>9. DOMAIN all \subseteq Nat
  <2>1. all \in Seq(Usernames)
    BY <1>3, ListingsAreWhole
  <2> QED BY <2>1
<1>10. ASSUME still, at = size, NEW j \in DOMAIN all, j <= offset + size
       PROVE  all[j] \in repair' \/ Repaired(all[j])
  <2>1. j \in Nat
    BY <1>9
  <2>2. CASE j <= offset
    BY <1>7, <1>10, <2>2
  <2>3. CASE ~(j <= offset)
    <3>1. j - offset \in 1..size /\ j - offset <= at
      BY <1>10, <2>1, <2>3
    <3>2. pass.rows[j - offset].name = all[offset + (j - offset)] /\ offset + (j - offset) = j
      BY <1>8, <1>10, <2>1, <3>1
    <3> QED BY <1>6, <1>10, <3>1, <3>2
  <2> QED BY <2>2, <2>3
<1>11. CASE at < size
  <2>1. PICK q : q = [pass EXCEPT !.step = "find", !.at = at + 1]
    OBVIOUS
  <2>2. pass' = q
    BY <1>5, <1>11, <2>1 DEF DriftOnward
  <2>3. /\ q \in PassRow /\ q.step = "find" /\ q.at = at + 1 /\ q.status = pass.status /\ q.offset = pass.offset
        /\ q.rows = pass.rows
    <3>1. PICK next \in Nat : next = at + 1
      BY <1>5
    <3>2. q = [pass EXCEPT !.step = "find", !.at = next]
      BY <2>1, <3>1
    <3> QED BY <1>1, <3>1, <3>2 DEF PassRow
  <2>4. DriftTypes'
    <3>1. \A i \in DOMAIN pass.rows : pass.rows[i].name \in WithRows
      BY DEF DriftInv, DriftTypes
    <3>2. WithRows' = WithRows
      BY DEF WithRows
    <3> QED BY <1>1, <1>5, <1>11, <2>2, <2>3, <3>1, <3>2 DEF DriftInv, DriftTypes
  <2>5. ASSUME still PROVE WalkHolds'
    <3>1. OfStatus(WalkStatuses[pass.status])' = all /\ WalkedPage(WalkStatuses[pass.status], pass.offset)' = pass.rows
      <4>1. WalkStatuses[pass'.status] = st /\ pass'.offset = offset
        BY <1>2, <1>4, <2>2, <2>3
      <4>2. OfStatus(st)' = OfStatus(st)
        BY DEF OfStatus
      <4>3. WalkedPage(st, offset)' = WalkedPage(st, offset)
        BY <4>2 DEF WalkedPage
      <4> QED BY <1>3, <1>7, <2>5, <4>1, <4>2, <4>3
    <3>2. \A i \in DOMAIN pass.rows : i < at + 1 => pass.rows[i].name \in repair' \/ Repaired(pass.rows[i].name)
      BY <1>1, <1>5, <1>6, <2>5
    <3> QED BY <1>2, <1>4, <1>7, <2>2, <2>3, <2>5, <3>1, <3>2 DEF WalkHolds, SeenTo, Repaired, Walking
  <2> QED BY <2>4, <2>5 DEF DriftInv
<1>12. CASE at = size /\ size < WalkPage
  <2>1. pass' = NextDriftStatus
    BY <1>5, <1>12 DEF DriftOnward
  <2>2. still => \A j \in DOMAIN all : all[j] \in repair' \/ Repaired(all[j])
    <3> SUFFICES ASSUME still, NEW j \in DOMAIN all PROVE all[j] \in repair' \/ Repaired(all[j])
      OBVIOUS
    <3>1. j <= offset + size
      BY <1>8, <1>9, <1>12
    <3> QED BY <1>10, <1>12, <3>1
  <2> QED BY <1>1, <1>2, <1>3, <2>1, <2>2, StatusesEnd
<1>13. CASE at = size /\ ~(size < WalkPage)
  <2>1. PICK q : q = [pass EXCEPT !.step = "page", !.offset = offset + WalkPage]
    OBVIOUS
  <2>2. pass' = q
    BY <1>4, <1>5, <1>13, <2>1 DEF DriftOnward
  <2>3. /\ q \in PassRow /\ q.step = "page" /\ q.status = pass.status /\ q.offset = offset + WalkPage
    <3>1. offset + WalkPage \in Nat
      BY <1>4, DriftAssumption
    <3> QED BY <1>1, <2>1, <3>1 DEF PassRow
  <2>4. DriftTypes'
    BY <2>2, <2>3 DEF DriftInv, DriftTypes, WithRows
  <2>5. ASSUME still PROVE WalkHolds'
    <3>1. OfStatus(WalkStatuses[pass.status])' = all
      <4>1. WalkStatuses[pass'.status] = st
        BY <1>2, <2>2, <2>3
      <4>2. OfStatus(st)' = OfStatus(st)
        BY DEF OfStatus
      <4> QED BY <1>3, <4>1, <4>2
    <3>2. \A j \in DOMAIN all : j <= offset + WalkPage => all[j] \in repair' \/ Repaired(all[j])
      <4>1. size = WalkPage
        BY <1>8, <1>13, <2>5, DriftAssumption
      <4> QED BY <1>10, <1>13, <2>5, <4>1
    <3> QED BY <1>7, <2>2, <2>3, <2>5, <3>1, <3>2 DEF WalkHolds, SeenTo, Repaired, Walking
  <2> QED BY <2>4, <2>5 DEF DriftInv
<1> QED BY <1>5, <1>11, <1>12, <1>13

LEMMA DriftStart == DriftInit => DriftInv
<1> SUFFICES ASSUME DriftInit PROVE DriftInv
  OBVIOUS
<1>1. staff \in [Usernames -> WalkedRows \cup {NoRow}]
  BY RosterAssumption DEF DriftInit
<1>2. inMaster \in [Usernames -> Accounts]
  <2>1. \A u \in Usernames : inMaster[u] \in Accounts
    <3> TAKE u \in Usernames
    <3>1. Missing \in Accounts
      BY DEF Accounts
    <3> QED BY <1>1, <3>1, AccountsAreDesired DEF DriftInit
  <2> QED BY <2>1 DEF DriftInit
<1>3. pass = NoPass /\ NoPass.step = "idle" /\ repair = {} /\ still = FALSE
  BY DEF DriftInit, NoPass
<1> QED BY <1>1, <1>2, <1>3 DEF DriftInv, DriftTypes

(* The others: what they change ends the quiet.                            *)
LEMMA OthersDrift ==
    ASSUME DriftInv, NEW u \in Usernames,
           \/ \E row \in WalkedRows : ChangeRow(u, row)
           \/ \E a \in Accounts : Meddles(u, a)
           \/ Delivers(u)
    PROVE  DriftInv'
<1>1. pass' = pass /\ ~still'
  BY DEF ChangeRow, Meddles, Delivers, Busy
<1>2. CASE \E row \in WalkedRows : ChangeRow(u, row)
  <2>1. PICK row \in WalkedRows : staff' = [staff EXCEPT ![u] = row] /\ repair' = repair \cup {u}
                                  /\ inMaster' = inMaster
    BY <1>2 DEF ChangeRow
  <2>2. WithRows \subseteq WithRows' /\ u \in WithRows'
    BY <2>1, RowsOfStatuses DEF WithRows, DriftInv, DriftTypes
  <2> QED BY <1>1, <2>1, <2>2 DEF DriftInv, DriftTypes
<1>3. CASE \E a \in Accounts : Meddles(u, a)
  BY <1>1, <1>3 DEF Meddles, DriftInv, DriftTypes, WithRows
<1>4. CASE Delivers(u)
  <2>1. u \in WithRows
    BY <1>4 DEF Delivers, DriftInv, DriftTypes
  <2>2. DesiredAccount(staff[u]) \in Accounts
    BY <2>1, AccountsAreDesired DEF WithRows, DriftInv, DriftTypes
  <2>3. inMaster' \in [Usernames -> Accounts]
    BY <1>4, <2>2 DEF Delivers, DriftInv, DriftTypes
  <2> QED BY <1>1, <1>4, <2>3 DEF Delivers, DriftInv, DriftTypes, WithRows
<1> QED BY <1>2, <1>3, <1>4

LEMMA PassesStart ==
    ASSUME DriftInv, StartPass
    PROVE  DriftInv'
<1>1. PICK q : q = [step |-> "page", status |-> 1, offset |-> 0, rows |-> << >>, at |-> 1,
                    seen |-> Missing, local |-> {}, extras |-> {}]
  OBVIOUS
<1>2. /\ pass' = q /\ UNCHANGED <<staff, inMaster, repair>>
  BY <1>1 DEF StartPass
<1>3. q \in PassRow /\ q.step = "page" /\ q.status = 1 /\ q.offset = 0
  <2>1. 1 \in 1..Len(WalkStatuses)
    BY RosterAssumption
  <2>2. Missing \in Accounts
    BY DEF Accounts
  <2> QED BY <1>1, <2>1, <2>2 DEF PassRow
<1>4. DriftTypes'
  BY <1>2, <1>3 DEF DriftInv, DriftTypes, WithRows
<1>5. WalkHolds'
  <2>1. \A j \in DOMAIN OfStatus(WalkStatuses[1])' : ~(j <= 0)
    <3>1. OfStatus(WalkStatuses[1]) \in Seq(Usernames)
      BY ListingsAreWhole
    <3>2. OfStatus(WalkStatuses[1])' = OfStatus(WalkStatuses[1])
      BY <1>2 DEF OfStatus
    <3> QED BY <3>1, <3>2
  <2> QED BY <1>2, <1>3, <2>1 DEF WalkHolds, Walking
<1> QED BY <1>4, <1>5 DEF DriftInv

LEMMA DriftPagesAreRead ==
    ASSUME DriftInv, ReadDriftPage
    PROVE  DriftInv'
<1>1. /\ pass.step = "page" /\ Walking /\ UNCHANGED <<staff, inMaster, repair, still>>
      /\ pass \in PassRow /\ pass.status \in DOMAIN WalkStatuses /\ pass.offset \in Nat
  <2>1. pass.step = "page" /\ UNCHANGED <<staff, inMaster, repair, still>> /\ pass \in PassRow
    BY DEF ReadDriftPage, DriftInv, DriftTypes, NoPass
  <2> QED BY <2>1, RosterAssumption DEF Walking, PassRow
<1>2. PICK rows \in Seq(PageRow) :
        /\ rows = WalkedPage(WalkStatuses[pass.status], pass.offset)
        /\ \A i \in DOMAIN rows : rows[i].name \in WithRows
        /\ \A j \in DOMAIN OfStatus(WalkStatuses[pass.status]) :
              \/ j <= pass.offset \/ j - pass.offset \in DOMAIN rows
              \/ Len(rows) = WalkPage /\ j > pass.offset + WalkPage
  BY <1>1, PagesAreCut DEF DriftInv
<1>3. CASE rows = << >>
  <2>1. pass' = NextDriftStatus
    BY <1>2, <1>3 DEF ReadDriftPage
  <2>2. DOMAIN rows = {} /\ Len(rows) # WalkPage
    BY <1>3, DriftAssumption
  <2>3. still => \A j \in DOMAIN OfStatus(WalkStatuses[pass.status]) :
                   SeenTo(OfStatus(WalkStatuses[pass.status])[j])
    BY <1>1, <1>2, <2>2 DEF DriftInv, WalkHolds
  <2> QED BY <1>1, <2>1, <2>3, StatusesEnd DEF SeenTo, DriftInv, DriftTypes
<1>4. CASE rows # << >>
  <2>1. PICK q : q = [pass EXCEPT !.step = "find", !.rows = rows, !.at = 1]
    OBVIOUS
  <2>2. pass' = q
    BY <1>2, <1>4, <2>1 DEF ReadDriftPage
  <2>3. /\ q \in PassRow /\ q.step = "find" /\ q.rows = rows /\ q.at = 1 /\ q.status = pass.status
        /\ q.offset = pass.offset
    BY <1>1, <1>2, <2>1 DEF PassRow, PageRow
  <2>4. 1 \in DOMAIN rows
    BY <1>2, <1>4
  <2>5. DriftTypes'
    BY <1>1, <1>2, <2>2, <2>3, <2>4 DEF DriftInv, DriftTypes, WithRows
  <2>6. ASSUME still PROVE WalkHolds'
    <3>1. PICK st, offset : st = WalkStatuses[pass.status] /\ offset = pass.offset
      OBVIOUS
    <3>2. OfStatus(st)' = OfStatus(st)
      BY <1>1 DEF OfStatus
    <3>3. WalkedPage(st, offset)' = WalkedPage(st, offset)
      BY <1>1, <3>2 DEF WalkedPage
    <3>4. /\ OfStatus(WalkStatuses[pass.status])' = OfStatus(WalkStatuses[pass.status])
          /\ WalkedPage(WalkStatuses[pass.status], pass.offset)' = rows
      BY <1>2, <2>2, <2>3, <3>1, <3>2, <3>3
    <3>5. /\ \A k \in 1..(pass.status - 1) : \A u \in Usernames :
               staff[u].status = WalkStatuses[k] => SeenTo(u)
          /\ \A i \in DOMAIN OfStatus(WalkStatuses[pass.status]) :
               i <= pass.offset => SeenTo(OfStatus(WalkStatuses[pass.status])[i])
      BY <1>1, <2>6 DEF DriftInv, WalkHolds
    <3>6. \A i \in DOMAIN rows : ~(i < 1)
      BY <1>2
    <3> QED BY <1>1, <2>2, <2>3, <3>4, <3>5, <3>6 DEF WalkHolds, SeenTo, Repaired, Walking
  <2> QED BY <1>1, <2>5, <2>6 DEF DriftInv
<1> QED BY <1>3, <1>4

LEMMA AccountsAreLookedFor ==
    ASSUME DriftInv, FindAccount
    PROVE  DriftInv'
<1>1. /\ pass.step = "find" /\ UNCHANGED <<staff, inMaster, still>> /\ pass \in PassRow
      /\ Walked.name \in WithRows /\ Walked.name \in Usernames /\ inMaster[Walked.name] \in Accounts
  BY RowsInHand DEF FindAccount, DriftInv, DriftTypes, WithRows
<1>2. CASE inMaster[Walked.name].there
  <2>1. PICK a \in Accounts : a = inMaster[Walked.name]
    BY <1>1
  <2>2. PICK q : q = [pass EXCEPT !.step = "compare", !.seen = a]
    OBVIOUS
  <2>3. pass' = q /\ repair' = repair
    BY <1>2, <2>1, <2>2 DEF FindAccount
  <2>4. /\ q \in PassRow /\ q.step = "compare" /\ q.seen = a /\ q.rows = pass.rows /\ q.at = pass.at
        /\ q.status = pass.status /\ q.offset = pass.offset
    BY <1>1, <2>1, <2>2 DEF PassRow
  <2>5. DriftTypes'
    BY <1>1, <2>3, <2>4 DEF DriftInv, DriftTypes, WithRows
  <2>6. ASSUME still PROVE WalkHolds'
    <3>1. PICK st, offset : st = WalkStatuses[pass.status] /\ offset = pass.offset
      OBVIOUS
    <3>2. OfStatus(st)' = OfStatus(st)
      BY <1>1 DEF OfStatus
    <3>3. WalkedPage(st, offset)' = WalkedPage(st, offset)
      BY <1>1, <3>2 DEF WalkedPage
    <3>4. Walked' = Walked
      BY <2>3, <2>4 DEF Walked
    <3>5. /\ \A k \in 1..(pass.status - 1) : \A u \in Usernames :
               staff[u].status = WalkStatuses[k] => SeenTo(u)
          /\ \A i \in DOMAIN OfStatus(st) : i <= offset => SeenTo(OfStatus(st)[i])
          /\ pass.rows = WalkedPage(st, offset)
          /\ \A i \in DOMAIN pass.rows : i < pass.at => SeenTo(pass.rows[i].name)
      BY <1>1, <2>6, <3>1 DEF DriftInv, WalkHolds, Walking
    <3> QED BY <1>1, <1>2, <2>1, <2>3, <2>4, <3>1, <3>2, <3>3, <3>4, <3>5
            DEF WalkHolds, SeenTo, Repaired, Walking
  <2> QED BY <1>1, <2>5, <2>6 DEF DriftInv
<1>3. CASE ~inMaster[Walked.name].there
  <2>1. pass' = DriftOnward /\ repair' = repair \cup {Walked.name}
    BY <1>3 DEF FindAccount
  <2>2. repair' \subseteq WithRows
    BY <1>1, <2>1 DEF DriftInv, DriftTypes
  <2> QED BY <1>1, <2>1, <2>2, RowsAreDone
<1> QED BY <1>2, <1>3

(* An account that differs in nothing that is compared is as wanted.       *)
LEMMA NothingDrifts ==
    ASSUME DriftInv, still, pass.step = "compare", DriftReasons = {}
    PROVE  Repaired(Walked.name)
<1>1. /\ pass \in PassRow /\ Walked.name \in Usernames /\ inMaster[Walked.name] \in Accounts
      /\ Walked.row \in WalkedRows /\ pass.at \in DOMAIN pass.rows
      /\ pass.status \in DOMAIN WalkStatuses
  BY RowsInHand DEF DriftInv, DriftTypes, WithRows
<1>2. pass.offset \in Nat
  BY <1>1 DEF PassRow
<1>3. Walked.row = staff[Walked.name]
  <2>1. pass.rows = WalkedPage(WalkStatuses[pass.status], pass.offset)
    BY DEF DriftInv, WalkHolds
  <2>2. DriftTypes
    BY DEF DriftInv
  <2>3. \A i \in DOMAIN pass.rows : pass.rows[i].row = staff[pass.rows[i].name]
    BY <1>1, <1>2, <2>1, <2>2, PagesAreCut
  <2> QED BY <1>1, <2>3 DEF Walked
<1>4. PICK a \in Accounts, row \in WalkedRows :
        /\ a = inMaster[Walked.name] /\ row = Walked.row /\ a = pass.seen /\ a.there
        /\ row = staff[Walked.name]
  BY <1>1, <1>3 DEF DriftInv, WalkHolds
<1>5. /\ a.enabled = (row.status = "active") /\ a.profile = row.profile /\ a.attrs = row.attrs
      /\ a.groups = row.groups
  <2>1. \A r \in {"enabled", "profile", "attributes", "groups"} :
           ~(CASE r = "enabled" -> a.enabled # (row.status = "active")
               [] r = "profile" -> a.profile # row.profile
               [] r = "attributes" -> ~AttrsEqual(a.attrs, row.attrs)
               [] r = "groups" -> a.groups # row.groups)
    BY <1>4 DEF DriftReasons
  <2>2. ~(a.enabled # (row.status = "active")) /\ ~(a.profile # row.profile) /\ ~(a.groups # row.groups)
        /\ AttrsEqual(a.attrs, row.attrs)
    BY <2>1
  <2> QED BY <2>2 DEF AttrsEqual
<1>6. a # Missing
  <2>1. ~Missing.there
    BY DEF Missing
  <2>2. a.there
    BY <1>4
  <2> QED BY <2>1, <2>2
<1>7. a \in [enabled : BOOLEAN, profile : Profiles, attrs : SUBSET DriftKeys,
             groups : SUBSET TeamNames, there : {TRUE}]
  BY <1>4, <1>6 DEF Accounts
<1>8. a = [enabled |-> row.status = "active", profile |-> row.profile, attrs |-> row.attrs,
           groups |-> row.groups, there |-> TRUE]
  BY <1>5, <1>7
<1> QED BY <1>4, <1>8 DEF Repaired, DesiredAccount

LEMMA AccountsAreCompared ==
    ASSUME DriftInv, Compare
    PROVE  DriftInv'
<1>1. /\ pass.step = "compare" /\ UNCHANGED <<staff, inMaster, still>> /\ pass \in PassRow
      /\ Walked.name \in WithRows
  BY RowsInHand DEF Compare
<1>2. CASE ~inMaster[Walked.name].there
  <2>1. pass' = NoPass /\ repair' = repair
    BY <1>2 DEF Compare
  <2> QED BY <1>1, <2>1 DEF DriftInv, DriftTypes, WithRows, NoPass, WalkHolds, Walking
<1>3. CASE inMaster[Walked.name].there
  <2>1. pass' = DriftOnward /\ repair' = IF DriftReasons # {} THEN repair \cup {Walked.name} ELSE repair
    BY <1>3 DEF Compare
  <2>2. repair' \subseteq WithRows /\ repair \subseteq repair'
    BY <1>1, <2>1 DEF DriftInv, DriftTypes
  <2>3. still => Walked.name \in repair' \/ Repaired(Walked.name)
    BY <1>1, <2>1, NothingDrifts
  <2> QED BY <1>1, <2>1, <2>2, <2>3, RowsAreDone
<1> QED BY <1>2, <1>3

LEMMA RepairsAreDrained ==
    ASSUME DriftInv, DrainOne \/ Drained
    PROVE  DriftInv'
<1>1. /\ pass.step = "drain" /\ UNCHANGED <<staff, still>> /\ pass \in PassRow
      /\ ~Walking
  BY DEF DrainOne, Drained, DriftInv, DriftTypes, NoPass, Walking
<1>2. still => \A u \in WithRows : SeenTo(u)
  BY <1>1 DEF DriftInv, WalkHolds
<1>3. CASE DrainOne
  <2>1. PICK u \in repair : /\ inMaster' = [inMaster EXCEPT ![u] = DesiredAccount(staff[u])]
                            /\ repair' = repair \ {u} /\ pass' = pass
    BY <1>3 DEF DrainOne
  <2>2. u \in Usernames /\ staff[u] \in WalkedRows
    BY DEF DriftInv, DriftTypes, WithRows
  <2>3. inMaster' \in [Usernames -> Accounts]
        /\ \A v \in Usernames : inMaster'[v] = IF v = u THEN DesiredAccount(staff[u]) ELSE inMaster[v]
    BY <2>1, <2>2, AccountsAreDesired DEF DriftInv, DriftTypes
  <2>4. DriftTypes'
    BY <1>1, <2>1, <2>3 DEF DriftInv, DriftTypes, WithRows
  <2>5. still => WalkHolds'
    BY <1>1, <1>2, <2>1, <2>3 DEF WalkHolds, Walking, SeenTo, Repaired, WithRows
  <2> QED BY <1>1, <2>4, <2>5 DEF DriftInv
<1>4. CASE Drained
  <2>1. PICK local \in SUBSET Usernames : local = WithRows
    BY DEF WithRows
  <2>2. PICK q : q = [pass EXCEPT !.step = "extras", !.local = local]
    OBVIOUS
  <2>3. pass' = q /\ repair = {} /\ UNCHANGED <<inMaster, repair>>
    BY <1>4, <2>1, <2>2 DEF Drained, WithRows
  <2>4. q \in PassRow /\ q.step = "extras" /\ q.local = local
    BY <1>1, <2>2 DEF PassRow
  <2>5. DriftTypes'
    BY <1>1, <2>3, <2>4 DEF DriftInv, DriftTypes, WithRows
  <2>6. still => WalkHolds'
    BY <1>1, <1>2, <2>1, <2>3, <2>4 DEF WalkHolds, Walking, SeenTo, Repaired, WithRows
  <2> QED BY <1>1, <2>5, <2>6 DEF DriftInv
<1> QED BY <1>3, <1>4

LEMMA PassesEnd ==
    ASSUME DriftInv, DetectKeycloakOnly \/ EndPass
    PROVE  DriftInv'
<1>1. CASE DetectKeycloakOnly
  <2>1. PICK extras \in SUBSET Usernames : extras = {u \in Usernames : inMaster[u].there} \ pass.local
    OBVIOUS
  <2>2. PICK q : q = [pass EXCEPT !.step = "report", !.extras = extras]
    OBVIOUS
  <2>3. /\ pass' = q /\ pass.step = "extras" /\ pass \in PassRow
        /\ UNCHANGED <<staff, inMaster, repair, still>>
    BY <1>1, <2>1, <2>2 DEF DetectKeycloakOnly, DriftInv, DriftTypes, NoPass
  <2>4. q \in PassRow /\ q.step = "report" /\ q.local = pass.local /\ q.extras = extras
    BY <2>2, <2>3 DEF PassRow
  <2>5. DriftTypes'
    BY <2>3, <2>4 DEF DriftInv, DriftTypes, WithRows
  <2>6. (still => WalkHolds) => (still => WalkHolds')
    BY <2>1, <2>3, <2>4 DEF WalkHolds, Walking, Repaired, WithRows
  <2> QED BY <2>3, <2>5, <2>6 DEF DriftInv
<1>2. CASE EndPass
  <2>1. pass' = NoPass /\ UNCHANGED <<staff, inMaster, repair, still>>
    BY <1>2 DEF EndPass
  <2> QED BY <2>1 DEF DriftInv, DriftTypes, WithRows, NoPass, WalkHolds, Walking
<1> QED BY <1>1, <1>2

LEMMA DriftSteps == DriftInv /\ [DriftNext]_wvars => DriftInv'
<1> SUFFICES ASSUME DriftInv, [DriftNext]_wvars PROVE DriftInv'
  OBVIOUS
<1>1. CASE UNCHANGED wvars
  <2>1. UNCHANGED <<staff, inMaster, repair, pass, still>>
    BY <1>1 DEF wvars
  <2>2. DriftTypes'
    BY <2>1 DEF DriftInv, DriftTypes, WithRows
  <2>3. WalkHolds => WalkHolds'
    BY <2>1 DEF WalkHolds, Walking, SeenTo, Repaired, WithRows, Walked, OfStatus, WalkedPage
  <2> QED BY <2>1, <2>2, <2>3 DEF DriftInv
<1>2. CASE DriftNext
  BY <1>2, OthersDrift, PassesStart, DriftPagesAreRead, AccountsAreLookedFor, AccountsAreCompared,
     RepairsAreDrained, PassesEnd DEF DriftNext
<1> QED BY <1>1, <1>2

(* A nightly pass beside which nothing changed leaves the account of       *)
(* everybody with a row, in the realm it looks at, as the row asks for,    *)
(* and what it reports as nobody's is nobody's: however many people and    *)
(* statuses there are and wherever its pages end.                          *)
THEOREM QuietPassesMendDrift == DriftSpec => []QuietPassesRepair
<1>1. DriftInv => QuietPassesRepair
  BY DEF DriftInv, DriftTypes, WalkHolds, QuietPassesRepair, WithRows, Repaired, PassRow, NoPass
<1> QED BY <1>1, DriftStart, DriftSteps, PTL DEF DriftSpec

-----------------------------------------------------------------------------
(* The run over one target.                                                *)

DirectoryRow == [status : ToSet(Statuses), value : {0, 1}]

HeldRow == [exists : BOOLEAN, enabled : BOOLEAN, value : {0, 1}]

RunRow ==
    [phase : {"idle", "walk", "groups", "override", "halted", "apply"},
     dry : BOOLEAN, force : BOOLEAN,
     provisioning : [mode : {"all_users", "entitled_only"}, entitled : SUBSET Persons],
     status : Nat \ {0}, offset : Nat, page : Seq([who : Persons, row : DirectoryRow]), full : BOOLEAN,
     population : Nat, people : Seq(Persons), groups : Seq(Lists), failed : SUBSET (Persons \cup Lists)]

RunTypes ==
    /\ person \in [Persons -> DirectoryRow]
    /\ members \in [Lists -> {0, 1}] /\ list \in [Lists -> {0, 1}]
    /\ mode \in {"all_users", "entitled_only"} /\ entitled \subseteq Persons
    /\ account \in [Persons -> HeldRow]
    /\ run \in RunRow

(* Who is as wanted, has failed or is going to be asserted by the run r.   *)
Looked(r, u) == u \in r.failed \/ Settled(u) \/ \E i \in DOMAIN r.people : r.people[i] = u

LookedAt(r, g) == g \in r.failed \/ list[g] = members[g] \/ \E i \in DOMAIN r.groups : r.groups[i] = g

(* As far as the walk of people has come ...                               *)
WalkedSoFar(r) ==
    /\ r.status \in 1..Len(Statuses)
    /\ \A k \in 1..(r.status - 1) : \A u \in Persons : person[u].status = Statuses[k] => Looked(r, u)
    /\ \A i \in DOMAIN Listing(Statuses[r.status]) :
          i <= r.offset => Looked(r, Listing(Statuses[r.status])[i])

(* ... of the page in its hand the last rows are left, as they are.        *)
PageInHand(r) ==
    LET rows == Listing(Statuses[r.status])
        last == PageEnd(rows, r.offset)
    IN  /\ Len(r.page) <= last - r.offset
        /\ r.full = (last = r.offset + PageSize)
        /\ \A j \in DOMAIN r.page :
              /\ r.page[j].who = rows[last - Len(r.page) + j]
              /\ r.page[j].row = person[r.page[j].who]
        /\ \A i \in DOMAIN rows : i <= last - Len(r.page) => Looked(r, rows[i])

RunHolds(r) ==
    /\ r.phase # "idle" => r.provisioning = Provisioning
    /\ r.phase = "walk" => WalkedSoFar(r) /\ (r.page # <<>> => PageInHand(r))
    /\ r.phase \in {"groups", "override", "apply"} => \A u \in Persons : Looked(r, u)
    /\ r.phase = "groups" => \A i \in DOMAIN AllGroups : i < r.status => LookedAt(r, AllGroups[i])
    /\ r.phase \in {"override", "apply"} => \A g \in Lists : LookedAt(r, g)

RunInv == RunTypes /\ (quiet => RunHolds(run))

LEMMA ListingsHaveEverybody ==
    ASSUME NEW st
    PROVE  /\ Listing(st) \in Seq(Persons)
           /\ \A j \in DOMAIN Listing(st) : person[Listing(st)[j]].status = st
           /\ \A u \in Persons : person[u].status = st => \E j \in DOMAIN Listing(st) : Listing(st)[j] = u
<1>1. PICK C : C = {u \in Persons : person[u].status = st}
  OBVIOUS
<1> DEFINE Defined(F) ==
      F = [i \in 0..Len(Everybody) |->
             IF i = 0 THEN <<>>
             ELSE IF Everybody[i] \in C THEN Append(F[i - 1], Everybody[i]) ELSE F[i - 1]]
<1>2. Everybody \in Seq(Persons) /\ Len(Everybody) \in Nat
  BY ReconciliationAssumption DEF Persons
<1>3. \E F : SelectsTo(F, Len(Everybody), Everybody, C)
  BY <1>2, SelectionsExist
<1>4. \A F : Defined(F) <=> SelectsTo(F, Len(Everybody), Everybody, C)
  BY DEF SelectsTo
<1>5. Listing(st) = (CHOOSE F : Defined(F))[Len(Everybody)]
  BY <1>1 DEF Listing, RowsOf
<1>6. PICK F : SelectsTo(F, Len(Everybody), Everybody, C) /\ Listing(st) = F[Len(Everybody)]
  <2>1. Defined(CHOOSE F : Defined(F))
    BY <1>3, <1>4
  <2> QED BY <1>4, <1>5, <2>1
<1>7. Listing(st) \in Seq(Persons) /\ IsSelection(Listing(st), Everybody, C)
  BY <1>2, <1>6, SelectionsAreWhole
<1>8. \A u \in Persons : \E i \in DOMAIN Everybody : Everybody[i] = u
  BY DEF Persons, ToSet
<1> QED BY <1>1, <1>7, <1>8 DEF IsSelection

(* What holds of a run it becomes, while nothing around it changes.        *)
LEMMA RunsCarryOver ==
    ASSUME RunInv, NEW r \in RunRow, quiet => RunHolds(r), run' = r,
           UNCHANGED <<person, members, mode, entitled, account, list, quiet>>
    PROVE  RunInv'
<1>1. RunTypes'
  BY DEF RunInv, RunTypes
<1>2. ASSUME quiet PROVE RunHolds(run)'
  <2>1. RunHolds(r)
    BY <1>2
  <2>2. /\ Provisioning' = Provisioning
        /\ \A u : Settled(u)' = Settled(u)
        /\ \A st : Listing(st)' = Listing(st)
    BY DEF Settled, DesiredUser, MayHold, Provisioning, Listing
  <2>3. /\ \A u : Looked(r, u)' = Looked(r, u)
        /\ \A g : LookedAt(r, g)' = LookedAt(r, g)
    BY <2>2 DEF Looked, LookedAt
  <2>4. WalkedSoFar(r)' = WalkedSoFar(r)
    BY <2>2, <2>3 DEF WalkedSoFar
  <2>5. PageInHand(r)' = PageInHand(r)
    BY <2>2, <2>3 DEF PageInHand
  <2>6. RunHolds(r)' = RunHolds(r)
    BY <2>2, <2>3, <2>4, <2>5 DEF RunHolds
  <2> QED BY <2>1, <2>6
<1> QED BY <1>1, <1>2 DEF RunInv

LEMMA Sizes ==
    /\ PageSize \in Nat /\ PageSize > 0
    /\ Statuses \in Seq(ToSet(Statuses)) /\ Len(Statuses) \in Nat /\ Len(Statuses) > 0
    /\ AllGroups \in Seq(Lists) /\ Len(AllGroups) \in Nat
<1>1. /\ PageSize \in Nat /\ PageSize > 0 /\ Statuses \in Seq(ToSet(Statuses)) /\ AllGroups \in Seq(Lists)
      /\ "active" \in ToSet(Statuses)
  BY ReconciliationAssumption DEF Lists
<1>2. Statuses # <<>>
  <2>1. DOMAIN Statuses # {}
    BY <1>1 DEF ToSet
  <2> QED BY <2>1
<1> QED BY <1>1, <1>2

LEMMA RunsStayRuns ==
    ASSUME NEW r \in RunRow
    PROVE  NextStatus(r) \in RunRow /\ NextPage(r) \in RunRow
<1>1. PICK s \in Nat \ {0} : s = r.status + 1
  BY DEF RunRow
<1>2. PICK o \in Nat : o = r.offset + PageSize
  BY Sizes DEF RunRow
<1>3. <<>> \in Seq([who : Persons, row : DirectoryRow])
  OBVIOUS
<1>4. [r EXCEPT !.page = <<>>, !.offset = o] \in RunRow
  BY <1>3 DEF RunRow
<1>5. [r EXCEPT !.page = <<>>, !.full = FALSE, !.offset = 0, !.phase = "groups", !.status = 1] \in RunRow
  <2>1. PICK one \in Nat \ {0} : one = 1
    OBVIOUS
  <2>2. [r EXCEPT !.page = <<>>, !.full = FALSE, !.offset = 0, !.phase = "groups", !.status = one] \in RunRow
    BY <1>3 DEF RunRow
  <2> QED BY <2>1, <2>2
<1>6. [r EXCEPT !.page = <<>>, !.full = FALSE, !.offset = 0, !.phase = "walk", !.status = s] \in RunRow
  BY <1>1, <1>3 DEF RunRow
<1>7. NextPage(r) \in RunRow
  BY <1>2, <1>4 DEF NextPage
<1>8. NextStatus(r) \in RunRow
  BY <1>1, <1>5, <1>6 DEF NextStatus
<1> QED BY <1>7, <1>8

(* A status that was walked to its end is walked.                          *)
LEMMA StatusesAreWalked ==
    ASSUME RunTypes, NEW r \in RunRow, r.phase = "walk", RunHolds(r),
           \A i \in DOMAIN Listing(Statuses[r.status]) : Looked(r, Listing(Statuses[r.status])[i])
    PROVE  NextStatus(r) \in RunRow /\ RunHolds(NextStatus(r))
<1>1. PICK n : n = NextStatus(r)
  OBVIOUS
<1>2. r.status \in 1..Len(Statuses) /\ r.provisioning = Provisioning /\ Len(Statuses) \in Nat
  BY Sizes DEF RunHolds, WalkedSoFar
<1>3. \A k \in 1..r.status : \A u \in Persons : person[u].status = Statuses[k] => Looked(r, u)
  <2> SUFFICES ASSUME NEW k \in 1..r.status, NEW u \in Persons, person[u].status = Statuses[k]
               PROVE  Looked(r, u)
    OBVIOUS
  <2>1. CASE k = r.status
    <3>1. PICK j \in DOMAIN Listing(Statuses[r.status]) : Listing(Statuses[r.status])[j] = u
      BY <2>1, ListingsHaveEverybody
    <3> QED BY <3>1
  <2>2. CASE k # r.status
    <3>1. k \in 1..(r.status - 1)
      BY <1>2, <2>2
    <3> QED BY <3>1 DEF RunHolds, WalkedSoFar
  <2> QED BY <2>1, <2>2
<1>4. CASE r.status = Len(Statuses)
  <2>1. n = [r EXCEPT !.page = <<>>, !.full = FALSE, !.offset = 0, !.phase = "groups", !.status = 1]
    BY <1>1, <1>4 DEF NextStatus
  <2>2. /\ n \in RunRow /\ n.phase = "groups" /\ n.status = 1 /\ n.provisioning = r.provisioning
        /\ n.failed = r.failed /\ n.people = r.people
    <3>2. n \in RunRow
      BY <1>1, RunsStayRuns
    <3>3. /\ n.phase = "groups" /\ n.status = 1 /\ n.provisioning = r.provisioning
          /\ n.failed = r.failed /\ n.people = r.people
      BY <2>1 DEF RunRow
    <3> QED BY <3>2, <3>3
  <2>3. \A u \in Persons : Looked(n, u)
    <3> TAKE u \in Persons
    <3>1. person[u].status \in ToSet(Statuses)
      BY DEF RunTypes, DirectoryRow
    <3>2. PICK k \in DOMAIN Statuses : person[u].status = Statuses[k]
      BY <3>1 DEF ToSet
    <3>3. k \in 1..r.status
      BY <1>4, Sizes, <3>2
    <3>4. Looked(r, u)
      BY <1>3, <3>2, <3>3
    <3> QED BY <2>2, <3>4 DEF Looked
  <2>4. \A i \in DOMAIN AllGroups : ~(i < n.status)
    BY <2>2, Sizes
  <2> QED BY <1>1, <1>2, <2>2, <2>3, <2>4 DEF RunHolds
<1>5. CASE r.status # Len(Statuses)
  <2>1. PICK s \in 1..Len(Statuses) : s = r.status + 1
    BY <1>2, <1>5
  <2>2. n = [r EXCEPT !.page = <<>>, !.full = FALSE, !.offset = 0, !.phase = "walk", !.status = s]
    BY <1>1, <1>5, <2>1 DEF NextStatus
  <2>3. /\ n \in RunRow /\ n.phase = "walk" /\ n.status = s /\ n.provisioning = r.provisioning
        /\ n.failed = r.failed /\ n.people = r.people /\ n.page = <<>> /\ n.offset = 0
    <3>2. n \in RunRow
      BY <1>1, RunsStayRuns
    <3>3. /\ n.phase = "walk" /\ n.status = s /\ n.provisioning = r.provisioning
          /\ n.failed = r.failed /\ n.people = r.people /\ n.page = <<>> /\ n.offset = 0
      BY <2>2 DEF RunRow
    <3> QED BY <3>2, <3>3
  <2>4. n.status - 1 = r.status
    BY <1>2, <2>1, <2>3
  <2>5. \A k \in 1..(n.status - 1) : \A u \in Persons : person[u].status = Statuses[k] => Looked(n, u)
    BY <1>3, <2>3, <2>4 DEF Looked
  <2>6. \A i \in DOMAIN Listing(Statuses[n.status]) : ~(i <= n.offset)
    <3>1. Listing(Statuses[n.status]) \in Seq(Persons)
      BY ListingsHaveEverybody
    <3> QED BY <2>3, <3>1
  <2>7. WalkedSoFar(n)
    BY <2>1, <2>3, <2>5, <2>6 DEF WalkedSoFar
  <2> QED BY <1>1, <1>2, <2>3, <2>7 DEF RunHolds
<1> QED BY <1>4, <1>5

(* The end of a page.                                                      *)
LEMMA PagesEnd ==
    ASSUME NEW st, NEW offset \in Nat
    PROVE  LET rows == Listing(st)
               last == PageEnd(rows, offset)
           IN  /\ Len(rows) \in Nat /\ DOMAIN rows = 1..Len(rows) /\ last \in 0..Len(rows)
               /\ last <= offset + PageSize
               /\ last < offset + PageSize => last = Len(rows)
               /\ PageOf(st, offset) \in Seq(Persons)
               /\ PageOf(st, offset) # <<>> =>
                     /\ Len(PageOf(st, offset)) = last - offset /\ offset < last
                     /\ DOMAIN PageOf(st, offset) = 1..(last - offset)
                     /\ \A i \in 1..(last - offset) : PageOf(st, offset)[i] = rows[offset + i]
               /\ PageOf(st, offset) = <<>> => last <= offset /\ last = Len(rows)
<1>1. PICK rows \in Seq(Persons) : rows = Listing(st)
  BY ListingsHaveEverybody
<1>2. PICK last \in 0..Len(rows) :
         /\ last = PageEnd(rows, offset) /\ last <= offset + PageSize
         /\ (last < offset + PageSize => last = Len(rows))
  <2>1. Len(rows) \in Nat /\ PageSize \in Nat
    BY <1>1, Sizes
  <2> QED BY <2>1 DEF PageEnd
<1>3. PageOf(st, offset) = [i \in 1..(last - offset) |-> rows[offset + i]]
  BY <1>1, <1>2 DEF PageOf
<1>4. CASE offset < last
  <2>1. PICK m \in Nat : m = last - offset
    BY <1>2, <1>4
  <2>2. \A i \in 1..m : offset + i \in 1..Len(rows) /\ rows[offset + i] \in Persons
    BY <1>1, <1>2, <2>1
  <2>3. PageOf(st, offset) = [i \in 1..m |-> rows[offset + i]]
    BY <1>3, <2>1
  <2>4. PageOf(st, offset) \in Seq(Persons) /\ Len(PageOf(st, offset)) = m /\ DOMAIN PageOf(st, offset) = 1..m
        /\ (\A i \in 1..m : PageOf(st, offset)[i] = rows[offset + i])
    BY <2>2, <2>3
  <2>5. m > 0 /\ PageOf(st, offset) # <<>>
    <3>1. m > 0
      BY <1>4, <1>2, <2>1
    <3> QED BY <2>4, <3>1
  <2> QED BY <1>1, <1>2, <1>4, <2>1, <2>4, <2>5
<1>5. CASE ~(offset < last)
  <2>1. 1..(last - offset) = {}
    BY <1>2, <1>5
  <2>2. PageOf(st, offset) = <<>>
    BY <1>3, <2>1
  <2>3. last = Len(rows)
    BY <1>1, <1>2, <1>5, Sizes
  <2> QED BY <1>1, <1>2, <1>5, <2>2, <2>3
<1> QED BY <1>4, <1>5

(* A walk of a status goes on behind a page that was full.                 *)
LEMMA PagesTurn ==
    ASSUME RunTypes, NEW r \in RunRow, r.phase = "walk", RunHolds(r),
           \A i \in DOMAIN Listing(Statuses[r.status]) :
              i <= r.offset + PageSize => Looked(r, Listing(Statuses[r.status])[i])
    PROVE  NextPage(r) \in RunRow /\ RunHolds(NextPage(r))
<1>1. PICK o \in Nat : o = r.offset + PageSize
  BY Sizes DEF RunRow
<1>2. PICK n : n = [r EXCEPT !.page = <<>>, !.offset = o]
  OBVIOUS
<1>3. n = NextPage(r)
  BY <1>1, <1>2 DEF NextPage
<1>4. n \in RunRow
  <2>1. <<>> \in Seq([who : Persons, row : DirectoryRow])
    OBVIOUS
  <2> QED BY <1>2, <2>1 DEF RunRow
<1>5. /\ n.phase = "walk" /\ n.status = r.status /\ n.provisioning = r.provisioning
      /\ n.failed = r.failed /\ n.people = r.people /\ n.page = <<>> /\ n.offset = o
  BY <1>2 DEF RunRow
<1>6. WalkedSoFar(n)
  <2>1. /\ r.status \in 1..Len(Statuses)
        /\ \A k \in 1..(r.status - 1) : \A u \in Persons : person[u].status = Statuses[k] => Looked(r, u)
    BY DEF RunHolds, WalkedSoFar
  <2>2. \A u : Looked(r, u) => Looked(n, u)
    BY <1>5 DEF Looked
  <2> QED BY <1>1, <1>5, <2>1, <2>2 DEF WalkedSoFar
<1> QED BY <1>3, <1>4, <1>5, <1>6 DEF RunHolds

LEMMA PagesAreRead ==
    ASSUME RunInv, ReadPage
    PROVE  RunInv'
<1>1. /\ run \in RunRow /\ run.phase = "walk" /\ run.page = <<>>
      /\ UNCHANGED <<person, members, mode, entitled, account, list, quiet>>
  BY DEF ReadPage, RunStep, RunInv, RunTypes
<1>2. PICK page : page = PageOf(Statuses[run.status], run.offset)
  OBVIOUS
<1>3. run.offset \in Nat
  BY <1>1 DEF RunRow
<1> DEFINE rows == Listing(Statuses[run.status])
           last == PageEnd(rows, run.offset)
<1>4. /\ Len(rows) \in Nat /\ DOMAIN rows = 1..Len(rows) /\ last \in 0..Len(rows)
      /\ last <= run.offset + PageSize
      /\ last < run.offset + PageSize => last = Len(rows)
      /\ page \in Seq(Persons)
      /\ page # <<>> =>
            /\ Len(page) = last - run.offset /\ run.offset < last /\ DOMAIN page = 1..(last - run.offset)
            /\ \A i \in 1..(last - run.offset) : page[i] = rows[run.offset + i]
      /\ page = <<>> => last <= run.offset /\ last = Len(rows)
  BY <1>2, <1>3, PagesEnd
<1> HIDE DEF rows, last
<1>5. CASE page = <<>>
  <2>1. run' = NextStatus(run)
    BY <1>2, <1>5 DEF ReadPage
  <2>2. NextStatus(run) \in RunRow
    BY <1>1, Sizes, RunsStayRuns
  <2>3. ASSUME quiet PROVE RunHolds(NextStatus(run))
    <3>1. RunHolds(run)
      BY <2>3 DEF RunInv
    <3>2. \A i \in DOMAIN rows : i <= run.offset => Looked(run, rows[i])
      BY <1>1, <3>1 DEF RunHolds, WalkedSoFar, rows
    <3>3. \A i \in DOMAIN rows : i <= run.offset
      BY <1>3, <1>4, <1>5
    <3>4. \A i \in DOMAIN rows : Looked(run, rows[i])
      BY <3>2, <3>3
    <3> QED BY <1>1, <3>1, <3>4, StatusesAreWalked DEF RunInv, rows
  <2> QED BY <1>1, <2>1, <2>2, <2>3, RunsCarryOver
<1>6. CASE page # <<>>
  <2>1. PICK q : q = [i \in DOMAIN page |-> [who |-> page[i], row |-> person[page[i]]]]
    OBVIOUS
  <2>2. /\ q \in Seq([who : Persons, row : DirectoryRow]) /\ Len(q) = Len(page) /\ q # <<>> /\ DOMAIN q = DOMAIN page
        /\ \A i \in DOMAIN page : q[i].who = page[i] /\ q[i].row = person[page[i]]
    <3>0. page \in Seq(Persons)
      BY <1>4
    <3>1. \A i \in DOMAIN page : page[i] \in Persons /\ person[page[i]] \in DirectoryRow
      BY <3>0 DEF RunInv, RunTypes
    <3>2. DOMAIN page = 1..Len(page) /\ Len(page) \in Nat
      BY <3>0
    <3>3. \A i \in DOMAIN page : [who |-> page[i], row |-> person[page[i]]] \in [who : Persons, row : DirectoryRow]
      BY <3>1
    <3>4. q \in Seq([who : Persons, row : DirectoryRow])
      BY <2>1, <3>2, <3>3
    <3>5. DOMAIN q = DOMAIN page /\ Len(q) = Len(page)
      BY <2>1, <3>2
    <3>6. q # <<>>
      <4>1. Len(page) # 0
        BY <1>6, <3>0
      <4> QED BY <3>5, <4>1
    <3> QED BY <2>1, <3>4, <3>5, <3>6
  <2>3. PICK full \in BOOLEAN : full = (Len(page) = PageSize)
    OBVIOUS
  <2>4. PICK r : r = [run EXCEPT !.page = q, !.full = full]
    OBVIOUS
  <2>5. run' = r
    BY <1>2, <1>6, <2>1, <2>3, <2>4 DEF ReadPage
  <2>6. r \in RunRow
    BY <1>1, <2>2, <2>4 DEF RunRow
  <2>7. /\ r.phase = "walk" /\ r.status = run.status /\ r.offset = run.offset /\ r.page = q /\ r.full = full
        /\ r.provisioning = run.provisioning /\ r.failed = run.failed /\ r.people = run.people
    BY <1>1, <2>4 DEF RunRow
  <2>8. ASSUME quiet PROVE RunHolds(r)
    <3>1. WalkedSoFar(run) /\ run.provisioning = Provisioning
      BY <1>1, <2>8 DEF RunInv, RunHolds
    <3>2. \A u : Looked(run, u) => Looked(r, u)
      BY <2>7 DEF Looked
    <3>3. WalkedSoFar(r)
      BY <2>7, <3>1, <3>2 DEF WalkedSoFar
    <3>4. PageInHand(r)
      <4>1. Listing(Statuses[r.status]) = rows /\ PageEnd(rows, r.offset) = last
        BY <2>7 DEF rows, last
      <4>2. last \in Nat
        <5>1. PICK n \in Nat : n = Len(rows)
          BY <1>4
        <5>2. last \in 0..n
          BY <1>4, <5>1
        <5> QED BY <5>2
      <4>3. PICK o \in Nat, l \in Nat : o = run.offset /\ l = last
        BY <1>3, <4>2
      <4>4. Len(page) = l - o
        BY <1>4, <1>6, <4>3
      <4>5. Len(r.page) <= last - r.offset /\ last - Len(r.page) = r.offset
        <5>1. Len(r.page) = l - o /\ r.offset = o
          BY <2>2, <2>7, <4>3, <4>4
        <5> QED BY <4>3, <5>1
      <4>6. r.full = (last = r.offset + PageSize)
        <5>1. (l - o = PageSize) = (l = o + PageSize)
          BY <4>3, Sizes
        <5>2. r.full = (l - o = PageSize) /\ r.offset = o
          BY <2>3, <2>7, <4>3, <4>4
        <5> QED BY <4>3, <5>1, <5>2
      <4>7. \A j \in DOMAIN r.page :
               r.page[j].who = rows[r.offset + j] /\ r.page[j].row = person[r.page[j].who]
        <5>1. /\ DOMAIN page = 1..(last - run.offset)
              /\ \A i \in 1..(last - run.offset) : page[i] = rows[run.offset + i]
          BY ONLY <1>4, <1>6, Zenon
        <5>2. PICK d : d = 1..(last - run.offset)
          OBVIOUS
        <5>3. DOMAIN page = d /\ \A j \in d : page[j] = rows[run.offset + j]
          BY ONLY <5>1, <5>2, Zenon
        <5>4. \A j \in DOMAIN page : page[j] = rows[run.offset + j]
          BY ONLY <5>3, Zenon
        <5> QED BY <2>2, <2>7, <5>4
      <4>8. \A i \in DOMAIN rows : i <= r.offset => Looked(r, rows[i])
        BY <2>7, <3>1, <3>2 DEF WalkedSoFar, rows
      <4> QED BY <4>1, <4>5, <4>6, <4>7, <4>8 DEF PageInHand
    <3> QED BY <2>7, <3>1, <3>3, <3>4 DEF RunHolds
  <2> QED BY <1>1, <2>5, <2>6, <2>8, RunsCarryOver
<1> QED BY <1>5, <1>6

(* Behind a person of a page that has been looked at the walk goes on.     *)
LEMMA TheWalkGoesOn ==
    ASSUME RunTypes, NEW r \in RunRow, r.phase = "walk", RunHolds(r), r.page # <<>>,
           Looked(r, r.page[1].who)
    PROVE  RunHolds(Onward(r))
<1> DEFINE rows == Listing(Statuses[r.status])
<1>1. PICK o \in Nat, l \in Nat, n \in Nat, m \in Nat :
         /\ o = r.offset /\ l = PageEnd(rows, o) /\ n = Len(r.page) /\ m = Len(rows)
         /\ DOMAIN rows = 1..m /\ l <= m /\ (l < o + PageSize => l = m)
  <2>1. r.offset \in Nat /\ Len(r.page) \in Nat
    BY DEF RunRow
  <2>2. /\ Len(rows) \in Nat /\ DOMAIN rows = 1..Len(rows) /\ PageEnd(rows, r.offset) \in 0..Len(rows)
        /\ (PageEnd(rows, r.offset) < r.offset + PageSize => PageEnd(rows, r.offset) = Len(rows))
    BY <2>1, PagesEnd
  <2> HIDE DEF rows
  <2>3. PageEnd(rows, r.offset) \in Nat /\ PageEnd(rows, r.offset) <= Len(rows)
    BY <2>2
  <2> QED BY <2>1, <2>2, <2>3
<1>2. PICK page \in Seq([who : Persons, row : DirectoryRow]) : page = r.page
  BY DEF RunRow
<1>3. /\ n <= l - o
      /\ r.full = (l = o + PageSize)
      /\ \A j \in DOMAIN page : page[j].who = rows[l - n + j] /\ page[j].row = person[page[j].who]
      /\ \A i \in DOMAIN rows : i <= l - n => Looked(r, rows[i])
  BY <1>1, <1>2 DEF RunHolds, PageInHand
<1>4. r.provisioning = Provisioning /\ WalkedSoFar(r)
  BY DEF RunHolds
<1> HIDE DEF rows
<1>5. n > 0 /\ DOMAIN page = 1..n
  BY <1>1, <1>2
<1>6. \A i \in DOMAIN rows : i <= l - n + 1 => Looked(r, rows[i])
  <2> SUFFICES ASSUME NEW i \in DOMAIN rows, i <= l - n + 1 PROVE Looked(r, rows[i])
    OBVIOUS
  <2>1. CASE i <= l - n
    BY <1>3, <2>1
  <2>2. CASE ~(i <= l - n)
    <3>1. i = l - n + 1
      BY <1>1, <2>2
    <3>2. rows[i] = page[1].who
      <4>1. 1 \in DOMAIN page
        BY <1>1, <1>5
      <4>2. page[1].who = rows[l - n + 1]
        BY <1>3, <4>1
      <4> QED BY <3>1, <4>2
    <3> QED BY <1>2, <3>2
  <2> QED BY <2>1, <2>2
<1>7. CASE n > 1
  <2>1. PICK q \in Seq([who : Persons, row : DirectoryRow]) :
          /\ q = Tail(page) /\ Len(q) = n - 1 /\ DOMAIN q = 1..(n - 1)
          /\ \A j \in 1..(n - 1) : q[j] = page[j + 1]
    <3>1. page # <<>> /\ Len(page) = n
      BY <1>1, <1>2
    <3>2. Tail(page) \in Seq([who : Persons, row : DirectoryRow]) /\ Len(Tail(page)) = n - 1
      BY <1>2, <3>1
    <3>3. DOMAIN Tail(page) = 1..(n - 1) /\ \A j \in 1..(n - 1) : Tail(page)[j] = page[j + 1]
      BY <1>2, <3>1
    <3> QED BY <3>2, <3>3
  <2>2. PICK w : w = [r EXCEPT !.page = q]
    OBVIOUS
  <2>3. w = Onward(r)
    BY <1>1, <1>2, <1>7, <2>1, <2>2 DEF Onward
  <2>4. /\ w.phase = "walk" /\ w.status = r.status /\ w.offset = o /\ w.full = r.full /\ w.page = q
        /\ w.provisioning = r.provisioning /\ w.failed = r.failed /\ w.people = r.people
    BY <1>1, <2>2 DEF RunRow
  <2>5. \A u : Looked(r, u) => Looked(w, u)
    BY <2>4 DEF Looked
  <2>6. WalkedSoFar(w)
    BY <1>1, <1>4, <2>4, <2>5 DEF WalkedSoFar
  <2>7. PICK k \in Nat : k = l - n + 1 /\ k = l - Len(q)
    BY <1>1, <1>3, <1>7, <2>1
  <2>8. PageInHand(w)
    <3>1. Listing(Statuses[w.status]) = rows /\ PageEnd(rows, w.offset) = l
      BY <1>1, <2>4 DEF rows
    <3>2. Len(w.page) <= l - w.offset /\ l - Len(w.page) = k
      BY <1>1, <1>3, <2>1, <2>4, <2>7
    <3>3. w.full = (l = w.offset + PageSize)
      BY <1>3, <2>4
    <3>4. \A j \in DOMAIN w.page : w.page[j].who = rows[k + j] /\ w.page[j].row = person[w.page[j].who]
      <4> SUFFICES ASSUME NEW j \in 1..(n - 1)
                   PROVE  q[j].who = rows[k + j] /\ q[j].row = person[q[j].who]
        BY <2>1, <2>4
      <4>1. j + 1 \in DOMAIN page /\ l - n + (j + 1) = k + j
        BY <1>1, <1>5, <2>7
      <4>2. q[j] = page[j + 1]
        BY <2>1
      <4> QED BY <1>3, <4>1, <4>2
    <3>5. \A i \in DOMAIN rows : i <= k => Looked(w, rows[i])
      BY <1>6, <2>5, <2>7
    <3> QED BY <3>1, <3>2, <3>3, <3>4, <3>5 DEF PageInHand
  <2> QED BY <1>4, <2>3, <2>4, <2>6, <2>8 DEF RunHolds
<1>8. CASE ~(n > 1)
  <2>1. n = 1 /\ \A i \in DOMAIN rows : i <= l => Looked(r, rows[i])
    <3>1. n = 1
      <4>1. n \in Nat /\ n > 0 /\ ~(n > 1)
        BY <1>1, <1>5, <1>8
      <4> QED BY <4>1
    <3>2. l - n + 1 = l
      BY <1>1, <3>1
    <3> QED BY <1>6, <3>1, <3>2
  <2>2. CASE r.full
    <3>1. Onward(r) = NextPage(r)
      BY <1>1, <2>1, <2>2 DEF Onward
    <3>2. \A i \in DOMAIN rows : i <= r.offset + PageSize => Looked(r, rows[i])
      BY <1>1, <1>3, <2>1, <2>2
    <3> QED BY <3>1, <3>2, PagesTurn DEF rows
  <2>3. CASE ~r.full
    <3>1. Onward(r) = NextStatus(r)
      BY <1>1, <2>1, <2>3 DEF Onward
    <3>2. l <= o + PageSize
      <4>1. PageEnd(rows, o) <= o + PageSize
        BY <1>1, PagesEnd DEF rows
      <4> QED BY <1>1, <4>1
    <3>3. l = m
      <4>1. l # o + PageSize
        BY <1>3, <2>3
      <4>2. l < o + PageSize
        <5>1. l \in Nat /\ o \in Nat /\ PageSize \in Nat
          BY <1>1, Sizes
        <5> QED BY <3>2, <4>1, <5>1
      <4> QED BY <1>1, <4>2
    <3>4. \A i \in DOMAIN rows : Looked(r, rows[i])
      BY <1>1, <2>1, <3>3
    <3> QED BY <3>1, <3>4, StatusesAreWalked DEF rows
  <2> QED BY <2>2, <2>3
<1> QED BY <1>7, <1>8

LEMMA WalksStayWalks ==
    ASSUME NEW r \in RunRow, r.page # <<>>
    PROVE  Onward(r) \in RunRow
<1>1. Tail(r.page) \in Seq([who : Persons, row : DirectoryRow])
  BY DEF RunRow
<1>2. PICK q \in Seq([who : Persons, row : DirectoryRow]) : q = Tail(r.page)
  BY <1>1
<1>3. [r EXCEPT !.page = q] \in RunRow
  BY DEF RunRow
<1> QED BY <1>2, <1>3, RunsStayRuns DEF Onward

LEMMA ElementsBelong ==
    ASSUME NEW R, NEW s \in Seq(R), NEW i \in DOMAIN s
    PROVE  s[i] \in R
OBVIOUS

(* Whoever is not flagged is as wanted.                                    *)
LEMMA PeopleAreSeen ==
    ASSUME run \in RunRow, PlanUser
    PROVE  \E who \in Persons, row \in DirectoryRow, people \in Seq(Persons), r \in RunRow :
             /\ who = run.page[1].who /\ row = run.page[1].row
             /\ people = IF PlanForUser(who, row, run.provisioning) THEN Append(run.people, who) ELSE run.people
             /\ run' = Onward(r) /\ r.phase = "walk" /\ r.page = run.page /\ r.status = run.status
             /\ r.offset = run.offset /\ r.full = run.full /\ r.provisioning = run.provisioning
             /\ r.failed = run.failed /\ r.people = people
<1>1. run \in RunRow /\ run.phase = "walk" /\ run.page # <<>>
  BY DEF PlanUser
<1>2. PICK who \in Persons, row \in DirectoryRow : who = run.page[1].who /\ row = run.page[1].row
  <2>1. PICK page \in Seq([who : Persons, row : DirectoryRow]) : page = run.page
    BY <1>1 DEF RunRow
  <2>2. page[1] \in [who : Persons, row : DirectoryRow]
    <3>1. page # <<>> /\ Len(page) \in Nat /\ DOMAIN page = 1..Len(page)
      BY <1>1, <2>1
    <3>2. 1 \in DOMAIN page
      BY <3>1, <2>1
    <3> QED BY <2>1, <3>2, ElementsBelong
  <2> QED BY <2>1, <2>2
<1>3. PICK p \in Nat : p = run.population + 1
  BY <1>1 DEF RunRow
<1>4. PICK people \in Seq(Persons) :
        people = IF PlanForUser(who, row, run.provisioning) THEN Append(run.people, who) ELSE run.people
  <2>1. run.people \in Seq(Persons)
    BY <1>1 DEF RunRow
  <2>2. Append(run.people, who) \in Seq(Persons)
    BY <1>2, <2>1
  <2> QED BY <2>1, <2>2
<1>5. PICK r : r = [run EXCEPT !.population = p, !.people = people]
  OBVIOUS
<1>6. run' = Onward(r)
  <2>1. CASE PlanForUser(who, row, run.provisioning)
    <3>1. [[run EXCEPT !.population = @ + 1] EXCEPT !.people = Append(@, who)] = r
      BY <1>1, <1>3, <1>4, <1>5, <2>1 DEF RunRow
    <3> QED BY <1>2, <2>1, <3>1 DEF PlanUser
  <2>2. CASE ~PlanForUser(who, row, run.provisioning)
    <3>1. [run EXCEPT !.population = @ + 1] = r
      BY <1>1, <1>3, <1>4, <1>5, <2>2 DEF RunRow
    <3> QED BY <1>2, <2>2, <3>1 DEF PlanUser
  <2> QED BY <2>1, <2>2
<1>7. r \in RunRow
  BY <1>1, <1>5 DEF RunRow
<1>8. /\ r.phase = "walk" /\ r.page = run.page /\ r.status = run.status /\ r.offset = run.offset
      /\ r.full = run.full /\ r.provisioning = run.provisioning /\ r.failed = run.failed /\ r.people = people
  BY <1>1, <1>5 DEF RunRow
<1> QED BY <1>2, <1>4, <1>6, <1>7, <1>8

LEMMA PeopleArePlanned ==
    ASSUME RunInv, PlanUser
    PROVE  RunInv'
<1>1. /\ run \in RunRow /\ run.phase = "walk" /\ run.page # <<>>
      /\ UNCHANGED <<person, members, mode, entitled, account, list, quiet>>
  BY DEF PlanUser, RunStep, RunInv, RunTypes
<1>2. PICK who \in Persons, row \in DirectoryRow, people \in Seq(Persons), r \in RunRow :
        /\ who = run.page[1].who /\ row = run.page[1].row
        /\ people = IF PlanForUser(who, row, run.provisioning) THEN Append(run.people, who) ELSE run.people
        /\ run' = Onward(r) /\ r.phase = "walk" /\ r.page = run.page /\ r.status = run.status
        /\ r.offset = run.offset /\ r.full = run.full /\ r.provisioning = run.provisioning
        /\ r.failed = run.failed /\ r.people = people
  BY <1>1, PeopleAreSeen
<1>3. ASSUME quiet PROVE RunHolds(Onward(r))
  <2>1. /\ run.provisioning = Provisioning /\ WalkedSoFar(run) /\ PageInHand(run)
    BY <1>1, <1>3 DEF RunInv, RunHolds
  <2>2. \A u : Looked(run, u) => Looked(r, u)
    <3>1. \A i \in DOMAIN run.people : i \in DOMAIN people /\ people[i] = run.people[i]
      <4>1. PICK f \in Seq(Persons) : f = run.people
        BY <1>1 DEF RunRow
      <4>2. people = f \/ people = Append(f, who)
        BY <1>2, <4>1
      <4> QED BY <4>1, <4>2
    <3> QED BY <1>2, <3>1 DEF Looked
  <2>3. WalkedSoFar(r)
    BY <1>2, <2>1, <2>2 DEF WalkedSoFar
  <2>4. PageInHand(r)
    BY <1>2, <2>1, <2>2 DEF PageInHand
  <2>5. Looked(r, who)
    <3>1. CASE PlanForUser(who, row, run.provisioning)
      <4>1. PICK f \in Seq(Persons) : f = run.people
        BY <1>1 DEF RunRow
      <4>2. people = Append(f, who)
        BY <1>2, <3>1, <4>1
      <4>3. Len(f) + 1 \in DOMAIN people /\ people[Len(f) + 1] = who
        BY <4>1, <4>2
      <4> QED BY <1>2, <4>3 DEF Looked
    <3>2. CASE ~PlanForUser(who, row, run.provisioning)
      <4>1. row = person[who]
        <5>1. 1 \in DOMAIN run.page
          <6>1. run.page \in Seq([who : Persons, row : DirectoryRow])
            BY <1>1 DEF RunRow
          <6> QED BY <1>1, <6>1
        <5> QED BY <1>2, <2>1, <5>1 DEF PageInHand
      <4>2. Settled(who)
        BY <2>1, <3>2, <4>1 DEF PlanForUser, Settled
      <4> QED BY <4>2 DEF Looked
    <3> QED BY <3>1, <3>2
  <2>6. RunHolds(r)
    BY <1>2, <2>1, <2>3, <2>4 DEF RunHolds
  <2> QED BY <1>1, <1>2, <2>5, <2>6, TheWalkGoesOn DEF RunInv
<1>4. Onward(r) \in RunRow
  BY <1>1, <1>2, WalksStayWalks
<1> QED BY <1>1, <1>2, <1>3, <1>4, RunsCarryOver

LEMMA GroupsArePlanned ==
    ASSUME RunInv, PlanGroup
    PROVE  RunInv'
<1>1. /\ run \in RunRow /\ run.phase = "groups" /\ run.status <= Len(AllGroups)
      /\ UNCHANGED <<person, members, mode, entitled, account, list, quiet>>
  BY DEF PlanGroup, RunStep, RunInv, RunTypes
<1>2. PICK s \in Nat \ {0}, p \in Nat : s = run.status + 1 /\ p = run.population + 1
  BY <1>1 DEF RunRow
<1>3. PICK g \in Lists : g = AllGroups[run.status]
  <2>1. run.status \in DOMAIN AllGroups
    BY <1>1, Sizes DEF RunRow
  <2> QED BY <2>1, Sizes, ElementsBelong
<1>4. run.groups \in Seq(Lists)
  BY <1>1 DEF RunRow
<1>5. PICK flagged \in Seq(Lists) :
        flagged = IF PlanForGroup(g) THEN Append(run.groups, g) ELSE run.groups
  <2>1. Append(run.groups, g) \in Seq(Lists)
    BY <1>3, <1>4
  <2> QED BY <1>4, <2>1
<1>6. PICK r : r = [run EXCEPT !.population = p, !.status = s, !.groups = flagged]
  OBVIOUS
<1>7. run' = r
  BY <1>1, <1>2, <1>3, <1>5, <1>6 DEF PlanGroup, RunRow
<1>8. r \in RunRow
  BY <1>1, <1>6 DEF RunRow
<1>9. /\ r.phase = "groups" /\ r.status = s /\ r.groups = flagged /\ r.provisioning = run.provisioning
      /\ r.failed = run.failed /\ r.people = run.people
  BY <1>1, <1>6 DEF RunRow
<1>10. ASSUME quiet PROVE RunHolds(r)
  <2>1. /\ run.provisioning = Provisioning /\ \A u \in Persons : Looked(run, u)
        /\ \A i \in DOMAIN AllGroups : i < run.status => LookedAt(run, AllGroups[i])
    BY <1>1, <1>10 DEF RunInv, RunHolds
  <2>2. \A u : Looked(run, u) => Looked(r, u)
    BY <1>9 DEF Looked
  <2>3. /\ \A i \in DOMAIN run.groups : i \in DOMAIN flagged /\ flagged[i] = run.groups[i]
        /\ PlanForGroup(g) => \E i \in DOMAIN flagged : flagged[i] = g
    <3>1. PICK f \in Seq(Lists) : f = run.groups
      BY <1>4
    <3>2. (flagged = f /\ ~PlanForGroup(g)) \/ flagged = Append(f, g)
      BY <1>5, <3>1
    <3>3. flagged = Append(f, g) => Len(f) + 1 \in DOMAIN flagged /\ flagged[Len(f) + 1] = g
      BY <3>1
    <3> QED BY <3>1, <3>2, <3>3
  <2>4. \A h : LookedAt(run, h) => LookedAt(r, h)
    BY <1>9, <2>3 DEF LookedAt
  <2>5. LookedAt(r, g)
    BY <1>9, <2>3 DEF LookedAt, PlanForGroup
  <2>6. ASSUME NEW i \in DOMAIN AllGroups, i < s PROVE LookedAt(r, AllGroups[i])
    <3>1. i \in Nat /\ run.status \in Nat
      BY <1>1, Sizes DEF RunRow
    <3>2. i < run.status \/ i = run.status
      BY <1>2, <2>6, <3>1
    <3> QED BY <1>3, <2>1, <2>4, <2>5, <3>2
  <2> QED BY <1>9, <2>1, <2>2, <2>6 DEF RunHolds
<1> QED BY <1>1, <1>7, <1>8, <1>10, RunsCarryOver

LEMMA NoRunIsOne == NoRun \in RunRow
<1>1. /\ <<>> \in Seq([who : Persons, row : DirectoryRow]) /\ <<>> \in Seq(Persons) /\ <<>> \in Seq(Lists)
      /\ {} \in SUBSET (Persons \cup Lists)
  OBVIOUS
<1> QED BY <1>1 DEF NoRun, RunRow

(* The other steps of a run that leave the target alone.                   *)
LEMMA RunsPass ==
    ASSUME RunInv, Decide \/ AuditOverride \/ RunThrows \/ Report
    PROVE  RunInv'
<1>1. /\ run \in RunRow
      /\ UNCHANGED <<person, members, mode, entitled, account, list, quiet>>
  BY DEF Decide, AuditOverride, RunThrows, Report, RunStep, RunInv, RunTypes
<1>2. CASE Decide \/ AuditOverride
  <2>1. PICK ph \in {"halted", "override", "apply"} : run' = [run EXCEPT !.phase = ph]
    BY <1>2 DEF Decide, AuditOverride
  <2>2. PICK r : r = [run EXCEPT !.phase = ph]
    OBVIOUS
  <2>3. /\ r \in RunRow /\ r.phase = ph /\ r.provisioning = run.provisioning
        /\ r.failed = run.failed /\ r.people = run.people /\ r.groups = run.groups
    BY <1>1, <2>2 DEF RunRow
  <2>4. (run.phase = "groups" /\ run.status > Len(AllGroups)) \/ run.phase = "override"
    BY <1>2 DEF Decide, AuditOverride
  <2>5. ASSUME quiet PROVE RunHolds(r)
    <3>1. /\ run.provisioning = Provisioning /\ \A u \in Persons : Looked(run, u)
      BY <2>4, <2>5 DEF RunInv, RunHolds
    <3>2. \A g \in Lists : LookedAt(run, g)
      <4>1. CASE run.phase = "override"
        BY <2>5, <4>1 DEF RunInv, RunHolds
      <4>2. CASE run.phase = "groups" /\ run.status > Len(AllGroups)
        <5> TAKE g \in Lists
        <5>1. PICK i \in DOMAIN AllGroups : AllGroups[i] = g
          BY DEF Lists, ToSet
        <5>2. i < run.status
          BY <1>1, <4>2, Sizes DEF RunRow
        <5> QED BY <2>5, <4>2, <5>1, <5>2 DEF RunInv, RunHolds
      <4> QED BY <2>4, <4>1, <4>2
    <3>3. /\ \A u : Looked(run, u) => Looked(r, u)
          /\ \A g : LookedAt(run, g) => LookedAt(r, g)
      BY <2>3 DEF Looked, LookedAt
    <3> QED BY <2>3, <3>1, <3>2, <3>3 DEF RunHolds
  <2> QED BY <1>1, <2>1, <2>2, <2>3, <2>5, RunsCarryOver
<1>3. CASE RunThrows \/ Report
  <2>1. run' = NoRun
    BY <1>3 DEF RunThrows, Report
  <2>2. NoRun \in RunRow
    BY NoRunIsOne
  <2>3. RunHolds(NoRun)
    BY DEF RunHolds, NoRun
  <2> QED BY <1>1, <2>1, <2>2, <2>3, RunsCarryOver
<1> QED BY <1>2, <1>3

(* Who is taken off the list of who is to be asserted.                     *)
LEMMA FirstsAreTaken ==
    ASSUME NEW S, NEW s \in Seq(S), s # <<>>
    PROVE  /\ s[1] \in S /\ Tail(s) \in Seq(S)
           /\ \A x : (\E i \in DOMAIN s : s[i] = x) => x = s[1] \/ \E i \in DOMAIN Tail(s) : Tail(s)[i] = x
<1>1. s[1] \in S /\ Tail(s) \in Seq(S)
  OBVIOUS
<1>2. ASSUME NEW i \in DOMAIN s, i # 1
      PROVE  i - 1 \in DOMAIN Tail(s) /\ Tail(s)[i - 1] = s[i]
  BY <1>2
<1> QED BY <1>1, <1>2

LEMMA RunsStart ==
    ASSUME RunInv, NEW dry \in BOOLEAN, NEW force \in BOOLEAN, StartRun(dry, force)
    PROVE  RunInv'
<1>1. PICK provisioning \in [mode : {"all_users", "entitled_only"}, entitled : SUBSET Persons] :
        provisioning = Provisioning
  BY DEF RunInv, RunTypes, Provisioning
<1>2. PICK r : r = [NoRun EXCEPT !.phase = "walk", !.dry = dry, !.force = force, !.provisioning = provisioning]
  OBVIOUS
<1>3. run' = r /\ UNCHANGED <<person, members, mode, entitled, account, list>>
  BY <1>1, <1>2 DEF StartRun
<1>4. r \in RunRow
  BY <1>2, NoRunIsOne DEF RunRow
<1>5. r.phase = "walk" /\ r.provisioning = Provisioning /\ r.status = 1 /\ r.offset = 0 /\ r.page = <<>>
  BY <1>1, <1>2 DEF NoRun
<1>6. WalkedSoFar(r)
  <2>1. Listing(Statuses[1]) \in Seq(Persons)
    BY ListingsHaveEverybody
  <2>2. \A i \in DOMAIN Listing(Statuses[1]) : ~(i <= 0)
    BY <2>1
  <2>3. 1 \in 1..Len(Statuses) /\ 1..(1 - 1) = {}
    BY Sizes
  <2> QED BY <1>5, <2>2, <2>3 DEF WalkedSoFar
<1>7. RunHolds(r)
  BY <1>5, <1>6 DEF RunHolds
<1>8. RunTypes'
  BY <1>3, <1>4 DEF RunInv, RunTypes
<1>9. RunHolds(run)'
  BY <1>3, <1>7 DEF RunHolds, WalkedSoFar, PageInHand, Looked, LookedAt, Settled, DesiredUser,
                    MayHold, Provisioning, Listing
<1> QED BY <1>8, <1>9 DEF RunInv

LEMMA DesiredAreHeld ==
    ASSUME NEW u, NEW row \in DirectoryRow, NEW provisioning
    PROVE  DesiredUser(u, row, provisioning) \in HeldRow
BY DEF DesiredUser, DirectoryRow, HeldRow, MayHold

(* The half that applies.                                                  *)
LEMMA RunsApply ==
    ASSUME RunInv, ApplyUser \/ RepairGroup \/ ApplyFails
    PROVE  RunInv'
<1>1. /\ run \in RunRow /\ run.phase = "apply"
      /\ UNCHANGED <<person, members, mode, entitled, quiet>>
  BY DEF ApplyUser, RepairGroup, ApplyFails, RunStep, RunInv, RunTypes
<1>2. /\ run.people \in Seq(Persons) /\ run.groups \in Seq(Lists)
      /\ run.failed \subseteq Persons \cup Lists
  BY <1>1 DEF RunRow
<1>3. quiet =>
        /\ run.provisioning = Provisioning
        /\ \A u \in Persons : Looked(run, u)
        /\ \A g \in Lists : LookedAt(run, g)
  BY <1>1 DEF RunInv, RunHolds
<1>4. ASSUME NEW r \in RunRow, run' = r, r.phase = "apply", r.provisioning = run.provisioning,
             account' \in [Persons -> HeldRow], list' \in [Lists -> {0, 1}],
             quiet => \A u \in Persons :
                        \/ u \in r.failed \/ account'[u] = DesiredUser(u, person[u], Provisioning)
                        \/ ~account'[u].exists /\ ~MayHold(u, Provisioning)
                        \/ \E i \in DOMAIN r.people : r.people[i] = u,
             quiet => \A g \in Lists :
                        \/ g \in r.failed \/ list'[g] = members[g]
                        \/ \E i \in DOMAIN r.groups : r.groups[i] = g
      PROVE  RunInv'
  <2>1. RunTypes'
    BY <1>1, <1>4 DEF RunInv, RunTypes
  <2>2. ASSUME quiet PROVE RunHolds(run)'
    <3>1. \A u \in Persons : Looked(run, u)'
      BY <1>1, <1>4, <2>2 DEF Looked, Settled, DesiredUser, MayHold, Provisioning
    <3>2. \A g \in Lists : LookedAt(run, g)'
      BY <1>1, <1>4, <2>2 DEF LookedAt
    <3>3. (run.provisioning = Provisioning)'
      BY <1>1, <1>3, <1>4, <2>2 DEF Provisioning
    <3> QED BY <1>4, <3>1, <3>2, <3>3 DEF RunHolds
  <2> QED BY <1>1, <2>1, <2>2 DEF RunInv
<1>5. CASE ApplyUser
  <2>1. run.people # <<>>
    BY <1>5 DEF ApplyUser
  <2>2. PICK u \in Persons, people \in Seq(Persons) : u = run.people[1] /\ people = Tail(run.people)
    BY <1>2, <2>1, FirstsAreTaken
  <2>3. PICK r : r = [run EXCEPT !.people = people]
    OBVIOUS
  <2>4. /\ r \in RunRow /\ r.phase = "apply" /\ r.provisioning = run.provisioning
        /\ r.people = people /\ r.groups = run.groups /\ r.failed = run.failed
    BY <1>1, <2>3 DEF RunRow
  <2>5. run' = r /\ list' = list
        /\ account' = [account EXCEPT ![u] = DesiredUser(u, person[u], Provisioning)]
    BY <1>5, <2>2, <2>3 DEF ApplyUser
  <2>6. DesiredUser(u, person[u], Provisioning) \in HeldRow
    BY DesiredAreHeld DEF RunInv, RunTypes
  <2>7. /\ account' \in [Persons -> HeldRow] /\ list' \in [Lists -> {0, 1}]
        /\ \A v \in Persons : account'[v] = IF v = u THEN DesiredUser(u, person[u], Provisioning) ELSE account[v]
    BY <2>5, <2>6 DEF RunInv, RunTypes
  <2>8. ASSUME quiet, NEW v \in Persons
        PROVE  \/ v \in r.failed \/ account'[v] = DesiredUser(v, person[v], Provisioning)
               \/ ~account'[v].exists /\ ~MayHold(v, Provisioning)
               \/ \E i \in DOMAIN r.people : r.people[i] = v
    <3>1. Looked(run, v)
      BY <1>3, <2>8
    <3>2. (\E i \in DOMAIN run.people : run.people[i] = v) => v = u \/ \E i \in DOMAIN people : people[i] = v
      BY <1>2, <2>1, <2>2, FirstsAreTaken
    <3> QED BY <2>4, <2>7, <3>1, <3>2 DEF Looked, Settled
  <2>9. quiet => \A g \in Lists :
                   \/ g \in r.failed \/ list'[g] = members[g]
                   \/ \E i \in DOMAIN r.groups : r.groups[i] = g
    BY <1>3, <2>4, <2>5 DEF LookedAt
  <2> QED BY <1>4, <2>4, <2>5, <2>7, <2>8, <2>9
<1>6. CASE RepairGroup
  <2>1. run.groups # <<>>
    BY <1>6 DEF RepairGroup
  <2>2. PICK h \in Lists, flagged \in Seq(Lists) : h = run.groups[1] /\ flagged = Tail(run.groups)
    BY <1>2, <2>1, FirstsAreTaken
  <2>3. PICK r : r = [run EXCEPT !.groups = flagged]
    OBVIOUS
  <2>4. /\ r \in RunRow /\ r.phase = "apply" /\ r.provisioning = run.provisioning
        /\ r.groups = flagged /\ r.people = run.people /\ r.failed = run.failed
    BY <1>1, <2>3 DEF RunRow
  <2>5. run' = r /\ account' = account /\ list' = [list EXCEPT ![h] = members[h]]
    BY <1>6, <2>2, <2>3 DEF RepairGroup
  <2>6. /\ account' \in [Persons -> HeldRow] /\ list' \in [Lists -> {0, 1}]
        /\ \A g \in Lists : list'[g] = IF g = h THEN members[h] ELSE list[g]
    BY <2>5 DEF RunInv, RunTypes
  <2>7. ASSUME quiet, NEW g \in Lists
        PROVE  \/ g \in r.failed \/ list'[g] = members[g]
               \/ \E i \in DOMAIN r.groups : r.groups[i] = g
    <3>1. LookedAt(run, g)
      BY <1>3, <2>7
    <3>2. (\E i \in DOMAIN run.groups : run.groups[i] = g) => g = h \/ \E i \in DOMAIN flagged : flagged[i] = g
      BY <1>2, <2>1, <2>2, FirstsAreTaken
    <3> QED BY <2>4, <2>6, <3>1, <3>2 DEF LookedAt
  <2>8. quiet => \A v \in Persons :
                   \/ v \in r.failed \/ account'[v] = DesiredUser(v, person[v], Provisioning)
                   \/ ~account'[v].exists /\ ~MayHold(v, Provisioning)
                   \/ \E i \in DOMAIN r.people : r.people[i] = v
    BY <1>3, <2>4, <2>5 DEF Looked, Settled
  <2> QED BY <1>4, <2>4, <2>5, <2>6, <2>7, <2>8
<1>7. CASE ApplyFails
  <2>1. account' = account /\ list' = list
    BY <1>7 DEF ApplyFails
  <2>2. account' \in [Persons -> HeldRow] /\ list' \in [Lists -> {0, 1}]
    BY <2>1 DEF RunInv, RunTypes
  <2>3. CASE run.people # <<>> /\ run' = [run EXCEPT !.people = Tail(@), !.failed = @ \cup {run.people[1]}]
    <3>1. PICK u \in Persons, people \in Seq(Persons), failed \in SUBSET (Persons \cup Lists) :
            u = run.people[1] /\ people = Tail(run.people) /\ failed = run.failed \cup {u}
      <4>1. run.people[1] \in Persons /\ Tail(run.people) \in Seq(Persons)
        BY <1>2, <2>3, FirstsAreTaken
      <4>2. run.failed \cup {run.people[1]} \in SUBSET (Persons \cup Lists)
        BY <1>2, <4>1
      <4> QED BY <4>1, <4>2
    <3>2. PICK r : r = [run EXCEPT !.people = people, !.failed = failed]
      OBVIOUS
    <3>3. /\ r \in RunRow /\ r.phase = "apply" /\ r.provisioning = run.provisioning
          /\ r.people = people /\ r.groups = run.groups /\ r.failed = failed
      BY <1>1, <3>2 DEF RunRow
    <3>4. run' = r
      BY <2>3, <3>1, <3>2
    <3>5. \A v : (\E i \in DOMAIN run.people : run.people[i] = v) => v = u \/ \E i \in DOMAIN people : people[i] = v
      BY <1>2, <2>3, <3>1, FirstsAreTaken
    <3>6. quiet => \A v \in Persons :
                     \/ v \in r.failed \/ account'[v] = DesiredUser(v, person[v], Provisioning)
                     \/ ~account'[v].exists /\ ~MayHold(v, Provisioning)
                     \/ \E i \in DOMAIN r.people : r.people[i] = v
      BY <1>3, <2>1, <3>1, <3>3, <3>5 DEF Looked, Settled
    <3>7. quiet => \A g \in Lists :
                     \/ g \in r.failed \/ list'[g] = members[g]
                     \/ \E i \in DOMAIN r.groups : r.groups[i] = g
      BY <1>3, <2>1, <3>1, <3>3 DEF LookedAt
    <3> QED BY <1>4, <2>2, <3>3, <3>4, <3>6, <3>7
  <2>4. CASE run.groups # <<>> /\ run' = [run EXCEPT !.groups = Tail(@), !.failed = @ \cup {run.groups[1]}]
    <3>1. PICK h \in Lists, flagged \in Seq(Lists), failed \in SUBSET (Persons \cup Lists) :
            h = run.groups[1] /\ flagged = Tail(run.groups) /\ failed = run.failed \cup {h}
      <4>1. run.groups[1] \in Lists /\ Tail(run.groups) \in Seq(Lists)
        BY <1>2, <2>4, FirstsAreTaken
      <4>2. run.failed \cup {run.groups[1]} \in SUBSET (Persons \cup Lists)
        BY <1>2, <4>1
      <4> QED BY <4>1, <4>2
    <3>2. PICK r : r = [run EXCEPT !.groups = flagged, !.failed = failed]
      OBVIOUS
    <3>3. /\ r \in RunRow /\ r.phase = "apply" /\ r.provisioning = run.provisioning
          /\ r.people = run.people /\ r.groups = flagged /\ r.failed = failed
      BY <1>1, <3>2 DEF RunRow
    <3>4. run' = r
      BY <2>4, <3>1, <3>2
    <3>5. \A g : (\E i \in DOMAIN run.groups : run.groups[i] = g) => g = h \/ \E i \in DOMAIN flagged : flagged[i] = g
      BY <1>2, <2>4, <3>1, FirstsAreTaken
    <3>6. quiet => \A v \in Persons :
                     \/ v \in r.failed \/ account'[v] = DesiredUser(v, person[v], Provisioning)
                     \/ ~account'[v].exists /\ ~MayHold(v, Provisioning)
                     \/ \E i \in DOMAIN r.people : r.people[i] = v
      BY <1>3, <2>1, <3>1, <3>3 DEF Looked, Settled
    <3>7. quiet => \A g \in Lists :
                     \/ g \in r.failed \/ list'[g] = members[g]
                     \/ \E i \in DOMAIN r.groups : r.groups[i] = g
      <4>1. \A g \in Lists : LookedAt(run, g) =>
               \/ g \in run.failed \/ list'[g] = members[g]
               \/ g = h \/ \E i \in DOMAIN flagged : flagged[i] = g
        BY <2>1, <3>5 DEF LookedAt
      <4>2. h \in r.failed /\ run.failed \subseteq r.failed /\ r.groups = flagged
        BY <3>1, <3>3
      <4>3. quiet => \A g \in Lists : LookedAt(run, g)
        BY <1>3
      <4> QED BY <4>1, <4>2, <4>3
    <3> QED BY <1>4, <2>2, <3>3, <3>4, <3>6, <3>7
  <2> QED BY <1>7, <2>3, <2>4 DEF ApplyFails
<1> QED BY <1>5, <1>6, <1>7

LEMMA OthersKeepTypes ==
    ASSUME RunInv, Meanwhile
    PROVE  RunInv'
<1>1. run' = run /\ quiet' = FALSE
  BY DEF Meanwhile, Change, ChangeStatus, UpdateUser, ChangeEntitlement, Deliver, Meddle, UpdateMembers, FlipMode
<1>2. ASSUME NEW u \in Persons,
             (\E s \in ToSet(Statuses) : ChangeStatus(u, s)) \/ UpdateUser(u) \/ ChangeEntitlement(u)
      PROVE  RunTypes'
  <2>1. UNCHANGED <<members, mode, account, list>>
    BY <1>2 DEF ChangeStatus, UpdateUser, ChangeEntitlement
  <2>2. entitled' \subseteq Persons
    BY <1>2 DEF ChangeStatus, UpdateUser, ChangeEntitlement, RunInv, RunTypes
  <2>3. person' \in [Persons -> DirectoryRow]
    <3>1. CASE \E s \in ToSet(Statuses) : ChangeStatus(u, s)
      BY <3>1 DEF ChangeStatus, RunInv, RunTypes, DirectoryRow
    <3>2. CASE UpdateUser(u)
      <4>1. PICK v \in {0, 1} : v = 1 - person[u].value
        BY DEF RunInv, RunTypes, DirectoryRow
      <4>2. person' = [person EXCEPT ![u] = [person[u] EXCEPT !.value = v]]
        BY <3>2, <4>1 DEF UpdateUser, RunInv, RunTypes
      <4>3. [person[u] EXCEPT !.value = v] \in DirectoryRow
        BY DEF RunInv, RunTypes, DirectoryRow
      <4> QED BY <4>2, <4>3 DEF RunInv, RunTypes
    <3>3. CASE ChangeEntitlement(u)
      BY <3>3 DEF ChangeEntitlement, RunInv, RunTypes
    <3> QED BY <1>2, <3>1, <3>2, <3>3
  <2> QED BY <1>1, <2>1, <2>2, <2>3 DEF RunInv, RunTypes
<1>3. ASSUME NEW u \in Persons, Deliver(u) \/ Meddle(u)
      PROVE  RunTypes'
  <2>1. UNCHANGED <<person, members, mode, entitled, list>>
    BY <1>3 DEF Deliver, Meddle
  <2>2. DesiredUser(u, person[u], Provisioning) \in HeldRow
    BY DesiredAreHeld DEF RunInv, RunTypes
  <2>3. NoAccount \in HeldRow /\ [account[u] EXCEPT !.enabled = ~@] \in HeldRow
    BY DEF NoAccount, HeldRow, RunInv, RunTypes
  <2>4. \E a \in HeldRow : account' = [account EXCEPT ![u] = a]
    BY <1>3, <2>2, <2>3 DEF Deliver, Meddle
  <2> QED BY <1>1, <2>1, <2>4 DEF RunInv, RunTypes
<1>4. ASSUME NEW g \in Lists, UpdateMembers(g)
      PROVE  RunTypes'
  BY <1>1, <1>4 DEF UpdateMembers, RunInv, RunTypes
<1>5. ASSUME FlipMode
      PROVE  RunTypes'
  BY <1>1, <1>5 DEF FlipMode, RunInv, RunTypes
<1> QED BY <1>1, <1>2, <1>3, <1>4, <1>5 DEF Meanwhile, RunInv

LEMMA RunsAreTyped == ReconciliationInit => RunInv
<1> SUFFICES ASSUME ReconciliationInit PROVE RunInv
  OBVIOUS
<1>1. "active" \in ToSet(Statuses)
  BY ReconciliationAssumption
<1>2. person \in [Persons -> DirectoryRow]
  BY <1>1 DEF ReconciliationInit, DirectoryRow
<1>3. account \in [Persons -> HeldRow]
  <2>1. NoAccount \in HeldRow /\ [exists |-> TRUE, enabled |-> TRUE, value |-> 0] \in HeldRow
    BY DEF HeldRow, NoAccount
  <2>2. account \in [Persons -> {NoAccount, [exists |-> TRUE, enabled |-> TRUE, value |-> 0]}]
    BY DEF ReconciliationInit
  <2> QED BY <2>1, <2>2
<1>4. RunHolds(run)
  BY DEF ReconciliationInit, RunHolds, NoRun
<1> QED BY <1>2, <1>3, <1>4, NoRunIsOne DEF ReconciliationInit, RunInv, RunTypes

LEMMA RunsKeep == RunInv /\ [ReconciliationNext]_sweepvars => RunInv'
<1> SUFFICES ASSUME RunInv, [ReconciliationNext]_sweepvars PROVE RunInv'
  OBVIOUS
<1>1. CASE UNCHANGED sweepvars
  <2>1. UNCHANGED <<person, members, mode, entitled, account, list, quiet>> /\ run' = run
    BY <1>1 DEF sweepvars
  <2> QED BY <2>1, RunsCarryOver DEF RunInv, RunTypes
<1>2. CASE Run
  BY <1>2, RunsStart, PagesAreRead, PeopleArePlanned, GroupsArePlanned, RunsPass, RunsApply DEF Run
<1>3. CASE Meanwhile
  BY <1>3, OthersKeepTypes
<1> QED BY <1>1, <1>2, <1>3 DEF ReconciliationNext

(* "A second run changes nothing": for any directory, page size and        *)
(* statuses, a run that came to its end while nobody else interfered has   *)
(* left everybody and every group as desired, except who failed in it.     *)
THEOREM QuietRunsSettleEverybody == ReconciliationSpec => []QuietRunsConverge
<1>1. RunInv => QuietRunsConverge
  <2> SUFFICES ASSUME RunInv, run.phase = "apply", run.people = <<>>, run.groups = <<>>, quiet
               PROVE  /\ \A u \in Persons : u \in run.failed \/ Settled(u)
                      /\ \A g \in Lists : g \in run.failed \/ list[g] = members[g]
    BY DEF QuietRunsConverge
  <2>1. (\A u \in Persons : Looked(run, u)) /\ (\A g \in Lists : LookedAt(run, g))
    BY DEF RunInv, RunHolds
  <2> QED BY <2>1 DEF Looked, LookedAt
<1> QED BY <1>1, RunsAreTyped, RunsKeep, PTL DEF ReconciliationSpec

-----------------------------------------------------------------------------
(* The guard: what is asserted and what is still to be, together, is what  *)
(* was held against the guard, or the override is on record.               *)
GuardInv ==
    /\ IsFiniteSet(asserted) /\ (run.phase # "apply" => asserted = {})
    /\ run.phase \in {"override", "apply"} => ~run.dry
    /\ run.phase = "override" => run.force
    /\ run.phase = "apply" =>
          \/ run.force /\ audited
          \/ ~Tripped(Cardinality(asserted) + Len(run.people) + Len(run.groups), run.population)

LEMMA FewerTripLess ==
    ASSUME NEW m \in Nat, NEW n \in Nat, NEW p \in Nat, m <= n, Tripped(m, p)
    PROVE  Tripped(n, p)
<1>1. PICK share : share = p * Percent
  OBVIOUS
<1>2. share \in Int /\ Floor \in Nat
  BY <1>1, ReconciliationAssumption
<1> QED BY <1>1, <1>2 DEF Tripped

(* One taken off the lists is at most one more that is asserted.           *)
LEMMA OneForOne ==
    ASSUME RunTypes, GuardInv, run.phase = "apply",
           run' \in RunRow, run'.phase = "apply", run'.dry = run.dry, run'.force = run.force,
           run'.population = run.population, audited' = audited,
           asserted' = asserted \/ \E x : asserted' = asserted \cup {x},
           Len(run'.people) + Len(run'.groups) + 1 = Len(run.people) + Len(run.groups)
    PROVE  GuardInv'
<1>1. run \in RunRow
  BY DEF RunTypes
<1>2. \E k \in Nat, j \in Nat :
         IsFiniteSet(asserted') /\ k = Cardinality(asserted) /\ j = Cardinality(asserted') /\ j <= k + 1
  <2>1. IsFiniteSet(asserted)
    BY DEF GuardInv
  <2>2. PICK k \in Nat : k = Cardinality(asserted)
    BY <2>1, FS_CardinalityType
  <2>3. PICK x : asserted' = asserted \/ asserted' = asserted \cup {x}
    OBVIOUS
  <2>4. IsFiniteSet(asserted \cup {x})
        /\ (Cardinality(asserted \cup {x}) = k \/ Cardinality(asserted \cup {x}) = k + 1)
    BY <2>1, <2>2, FS_AddElement
  <2>5. PICK j \in {k, k + 1} : j = Cardinality(asserted') /\ IsFiniteSet(asserted')
    BY <2>1, <2>2, <2>3, <2>4
  <2>6. j \in Nat /\ j <= k + 1
    BY <2>2, <2>5
  <2> QED BY <2>2, <2>5, <2>6
<1>3. PICK k \in Nat, j \in Nat :
         IsFiniteSet(asserted') /\ k = Cardinality(asserted) /\ j = Cardinality(asserted') /\ j <= k + 1
  BY <1>2
<1>4. PICK a \in Nat, b \in Nat, c \in Nat, d \in Nat, p \in Nat :
         /\ a = Len(run.people) /\ b = Len(run.groups) /\ c = Len(run'.people) /\ d = Len(run'.groups)
         /\ p = run.population
  <2>1. /\ Len(run.people) \in Nat /\ Len(run.groups) \in Nat /\ Len(run'.people) \in Nat /\ Len(run'.groups) \in Nat
        /\ run.population \in Nat
    BY <1>1 DEF RunRow
  <2> QED BY <2>1
<1>5. CASE run.force /\ audited
  BY <1>3, <1>5 DEF GuardInv
<1>6. CASE ~Tripped(k + a + b, p)
  <2>1. PICK m \in Nat, n \in Nat : m = j + c + d /\ n = k + a + b
    <3>1. j \in Nat /\ k \in Nat /\ a \in Nat /\ b \in Nat /\ c \in Nat /\ d \in Nat
      BY <1>3, <1>4
    <3>2. j + c + d \in Nat /\ k + a + b \in Nat
      BY <3>1
    <3> QED BY <3>2
  <2>2. m <= n
    <3>1. c + d + 1 = a + b
      BY <1>4
    <3> QED BY <1>3, <2>1, <3>1
  <2>3. ~Tripped(m, p)
    BY <1>6, <2>1, <2>2, FewerTripLess
  <2>4. ~Tripped(Cardinality(asserted') + Len(run'.people) + Len(run'.groups), run'.population)
    BY <1>4, <1>3, <2>1, <2>3
  <2>5. (~Tripped(Cardinality(asserted) + Len(run.people) + Len(run.groups), run.population))'
    BY <2>4 DEF Tripped
  <2> QED BY <1>3, <2>5 DEF GuardInv
<1> QED BY <1>4, <1>5, <1>6, <1>3 DEF GuardInv

LEMMA GuardStays ==
    ASSUME RunInv, GuardInv, [ReconciliationNext]_sweepvars
    PROVE  GuardInv'
<1>1. run \in RunRow /\ RunTypes
  BY DEF RunInv, RunTypes
<1>2. ASSUME run' = run, UNCHANGED <<asserted, audited>>
      PROVE  GuardInv'
  BY <1>2 DEF GuardInv, Tripped
<1>3. CASE UNCHANGED sweepvars \/ Meanwhile
  <2>1. run' = run /\ UNCHANGED <<asserted, audited>>
    BY <1>3 DEF sweepvars, Meanwhile, Change, ChangeStatus, UpdateUser, ChangeEntitlement, Deliver, Meddle,
                UpdateMembers, FlipMode
  <2> QED BY <1>2, <2>1
<1>4. ASSUME run'.phase \notin {"override", "apply"}, asserted' = {}
      PROVE  GuardInv'
  BY <1>4, FS_EmptySet DEF GuardInv
<1>5. ASSUME NEW dry \in BOOLEAN, NEW force \in BOOLEAN, StartRun(dry, force)
      PROVE  GuardInv'
  <2>1. run'.phase = "walk" /\ asserted' = {}
    BY <1>5 DEF StartRun, NoRun
  <2> QED BY <1>4, <2>1
<1>6. ASSUME ReadPage \/ PlanUser \/ PlanGroup PROVE GuardInv'
  <2>1. asserted' = {}
    BY <1>6 DEF ReadPage, PlanUser, PlanGroup, GuardInv
  <2>2. ASSUME NEW w \in RunRow, w.phase = "walk" PROVE NextStatus(w).phase \in {"walk", "groups"} /\ NextPage(w).phase = "walk"
    BY <2>2 DEF NextStatus, NextPage, RunRow
  <2>3. run'.phase \in {"walk", "groups"}
    <3>1. CASE ReadPage
      BY <1>1, <2>2, <3>1 DEF ReadPage, RunRow
    <3>2. CASE PlanUser
      <4>1. PICK w \in RunRow : w.phase = "walk" /\ w.page # <<>> /\ run' = Onward(w)
        <5>1. run.page # <<>>
          BY <3>2 DEF PlanUser
        <5> QED BY <1>1, <3>2, <5>1, PeopleAreSeen
      <4>2. [w EXCEPT !.page = Tail(w.page)].phase = "walk"
        BY <4>1 DEF RunRow
      <4> QED BY <2>2, <4>1, <4>2 DEF Onward
    <3>3. CASE PlanGroup
      BY <1>1, <3>3 DEF PlanGroup, RunRow
    <3> QED BY <1>6, <3>1, <3>2, <3>3
  <2> QED BY <1>4, <2>1, <2>3
<1>7. ASSUME RunThrows \/ Report PROVE GuardInv'
  <2>1. run'.phase = "idle" /\ asserted' = {}
    BY <1>7 DEF RunThrows, Report, NoRun, GuardInv
  <2> QED BY <1>4, <2>1
<1>8. CASE Decide
  <2>1. asserted' = {} /\ asserted = {} /\ audited' = audited /\ run.population \in Nat
        /\ run.dry \in BOOLEAN /\ run.force \in BOOLEAN
    BY <1>1, <1>8 DEF Decide, GuardInv, RunRow
  <2>2. CASE Halts(run)
    <3>1. run'.phase = "halted"
      BY <1>1, <1>8, <2>2 DEF Decide, RunRow
    <3> QED BY <1>4, <2>1, <3>1
  <2>3. CASE ~Halts(run) /\ Tripped(Changed, run.population)
    <3>1. run' = [run EXCEPT !.phase = "override"]
      BY <1>8, <2>3 DEF Decide
    <3>2. run'.phase = "override" /\ run'.dry = run.dry /\ run'.force = run.force
      BY <1>1, <3>1 DEF RunRow
    <3>3. ~run.dry /\ run.force
      BY <2>1, <2>3 DEF Halts, Changed
    <3> QED BY <2>1, <3>2, <3>3, FS_EmptySet DEF GuardInv
  <2>4. CASE ~Halts(run) /\ ~Tripped(Changed, run.population)
    <3>1. run' = [run EXCEPT !.phase = "apply"]
      BY <1>8, <2>4 DEF Decide
    <3>2. /\ run'.phase = "apply" /\ run'.dry = run.dry /\ run'.population = run.population
          /\ run'.people = run.people /\ run'.groups = run.groups
      BY <1>1, <3>1 DEF RunRow
    <3>3. ~run.dry
      BY <2>1, <2>4 DEF Halts
    <3>4. Cardinality(asserted') + Len(run'.people) + Len(run'.groups) = Changed
      <4>1. Len(run.people) \in Nat /\ Len(run.groups) \in Nat
        BY <1>1 DEF RunRow
      <4>2. Cardinality(asserted') = 0
        BY <2>1, FS_EmptySet
      <4> QED BY <3>2, <4>1, <4>2 DEF Changed
    <3>5. (~Tripped(Cardinality(asserted) + Len(run.people) + Len(run.groups), run.population))'
      <4>1. ~Tripped(Cardinality(asserted') + Len(run'.people) + Len(run'.groups), run'.population)
        BY <2>4, <3>2, <3>4
      <4> QED BY <4>1 DEF Tripped
    <3> QED BY <2>1, <3>2, <3>3, <3>5, FS_EmptySet DEF GuardInv
  <2> QED BY <2>2, <2>3, <2>4
<1>9. CASE AuditOverride
  <2>1. run' = [run EXCEPT !.phase = "apply"] /\ audited' = TRUE /\ asserted' = {} /\ ~run.dry /\ run.force
    BY <1>9 DEF AuditOverride, GuardInv
  <2>2. run'.phase = "apply" /\ run'.dry = run.dry /\ run'.force = run.force
    BY <1>1, <2>1 DEF RunRow
  <2> QED BY <2>1, <2>2, FS_EmptySet DEF GuardInv
<1>10. CASE ApplyUser \/ RepairGroup \/ ApplyFails
  <2>1. PICK x : /\ asserted' \in {asserted, asserted \cup {x}} /\ audited' = audited /\ run.phase = "apply"
                 /\ \/ run.people # <<>> /\ run' = [run EXCEPT !.people = Tail(@)]
                    \/ run.groups # <<>> /\ run' = [run EXCEPT !.groups = Tail(@)]
                    \/ run.people # <<>> /\ run' = [run EXCEPT !.people = Tail(@), !.failed = @ \cup {run.people[1]}]
                    \/ run.groups # <<>> /\ run' = [run EXCEPT !.groups = Tail(@), !.failed = @ \cup {run.groups[1]}]
    BY <1>10 DEF ApplyUser, RepairGroup, ApplyFails
  <2>2. run' \in RunRow
    BY <1>10, RunsApply DEF RunInv, RunTypes
  <2>3. /\ run'.phase = "apply" /\ run'.dry = run.dry /\ run'.force = run.force
        /\ run'.population = run.population
        /\ \/ run.people # <<>> /\ run'.people = Tail(run.people) /\ run'.groups = run.groups
           \/ run.groups # <<>> /\ run'.groups = Tail(run.groups) /\ run'.people = run.people
    BY <1>1, <2>1 DEF RunRow
  <2>4. run.people \in Seq(Persons) /\ run.groups \in Seq(Lists)
    BY <1>1 DEF RunRow
  <2>5. Len(run'.people) + Len(run'.groups) + 1 = Len(run.people) + Len(run.groups)
    <3>1. CASE run.people # <<>> /\ run'.people = Tail(run.people) /\ run'.groups = run.groups
      <4>1. PICK a \in Nat, b \in Nat : a = Len(run.people) /\ b = Len(run.groups)
        BY <2>4
      <4>2. Len(run'.people) = a - 1
        BY <2>4, <3>1, <4>1
      <4>3. Len(run'.groups) = b
        BY <3>1, <4>1
      <4> QED BY <4>1, <4>2, <4>3
    <3>2. CASE run.groups # <<>> /\ run'.groups = Tail(run.groups) /\ run'.people = run.people
      <4>1. PICK a \in Nat, b \in Nat : a = Len(run.people) /\ b = Len(run.groups)
        BY <2>4
      <4>2. Len(run'.groups) = b - 1
        BY <2>4, <3>2, <4>1
      <4>3. Len(run'.people) = a
        BY <3>2, <4>1
      <4> QED BY <4>1, <4>2, <4>3
    <3> QED BY <2>3, <3>1, <3>2
  <2>6. run.phase = "apply" /\ audited' = audited /\ (asserted' = asserted \/ \E y : asserted' = asserted \cup {y})
    BY <2>1
  <2> QED BY <1>1, <2>2, <2>3, <2>5, <2>6, OneForOne
<1> QED BY <1>3, <1>5, <1>6, <1>7, <1>8, <1>9, <1>10 DEF ReconciliationNext, Run

(* The guard bounds what is done, not what was planned: whatever a run     *)
(* touches, people and groups together, is within the share or the count   *)
(* the operator set, or the run was forced and that is on record already;  *)
(* a run that was only to report touches nothing.                          *)
THEOREM RunsStayWithinTheGuard == ReconciliationSpec => []GuardBoundsTheTarget
<1>1. ReconciliationInit => GuardInv
  BY FS_EmptySet DEF ReconciliationInit, GuardInv, NoRun
<1>2. RunInv /\ GuardInv => GuardBoundsTheTarget
  <2> SUFFICES ASSUME RunInv, GuardInv, asserted # {}, Tripped(Cardinality(asserted), run.population)
                      \/ run.dry
               PROVE  ~run.dry /\ run.force /\ audited
    BY DEF GuardBoundsTheTarget, GuardInv
  <2>1. run.phase = "apply" /\ ~run.dry
    BY DEF GuardInv
  <2>2. PICK a \in Nat, b \in Nat, m \in Nat, p \in Nat :
          a = Len(run.people) /\ b = Len(run.groups) /\ m = Cardinality(asserted) /\ p = run.population
    <3>1. Len(run.people) \in Nat /\ Len(run.groups) \in Nat /\ run.population \in Nat
      BY DEF RunInv, RunTypes, RunRow
    <3>2. Cardinality(asserted) \in Nat
      BY FS_CardinalityType DEF GuardInv
    <3> QED BY <3>1, <3>2
  <2>3. Tripped(m + a + b, p)
    <3>1. PICK n \in Nat : n = m + a + b /\ m <= n
      OBVIOUS
    <3> QED BY <2>1, <2>2, <3>1, FewerTripLess
  <2> QED BY <2>1, <2>2, <2>3 DEF GuardInv
<1>3. ReconciliationSpec => [](RunInv /\ GuardInv)
  <2>1. RunInv /\ GuardInv /\ [ReconciliationNext]_sweepvars => RunInv' /\ GuardInv'
    BY RunsKeep, GuardStays
  <2> QED BY <1>1, <2>1, RunsAreTyped, PTL DEF ReconciliationSpec
<1> QED BY <1>2, <1>3, PTL
=============================================================================
