------------------------ MODULE TokenEndpointProofs ------------------------
(***************************************************************************)
(* The threaded token endpoint, for any number of threads, clients and     *)
(* requests and for all lifetimes.                                         *)
(*                                                                         *)
(* The grants. IndSound holds whatever the interleaving: a family is named *)
(* by the request that opened it, that request has ended before a token of *)
(* the family exists, and the "del" of a device code lets one request      *)
(* through. Serially is what the unlocked handlers keep in addition while  *)
(* one request at a time is in flight: the code is unused when it is       *)
(* marked, a family under rotation has no usable token until the new one   *)
(* is stored, and a loop has revoked whatever it has gone past.            *)
(*                                                                         *)
(* Before the grant. RequestsInv relates the caches to what requests have  *)
(* recorded: what a finished request has spent stays spent.                *)
(***************************************************************************)
EXTENDS ThreadedTokenEndpoint, TokenRequests, TLAPS

\* The request f has opened a family with the grant g.
Founded(f, g) == pc[f] = "done" /\ local[f].kind = g

\* Labels at which a request is on its way to mint, and at which it scans.
Minting == {"mark_code", "mark_refresh", "del_device", "put_access", "put_refresh"}
Putting == {"put_access", "put_refresh"}
Scanning == {"begin_scan", "scan"}

\* What the local variables of a request say about it at each label.
RequestSound(th) ==
  /\ pc[th] = "idle" => local[th].kind = "none" /\ local[th].family = th /\ local[th].grant = "code"
  /\ pc[th] = "mark_code" => local[th].kind = "code" /\ local[th].family = th /\ local[th].grant = "code"
  /\ pc[th] = "del_device" => local[th].kind = "device" /\ local[th].family = th /\ local[th].grant = "device"
  /\ pc[th] = "mark_refresh" =>
       /\ local[th].kind = "rotate"
       /\ local[th].token \in 1..Len(refresh_tokens)
       /\ refresh_tokens[local[th].token].family_id = local[th].family
       /\ refresh_tokens[local[th].token].grant = local[th].grant
  /\ pc[th] \in Putting =>
       \/ local[th].kind \in {"code", "device"} /\ local[th].family = th /\ local[th].grant = local[th].kind
       \/ local[th].kind = "rotate" /\ Founded(local[th].family, local[th].grant)
  /\ pc[th] \in Scanning =>
       \/ local[th].kind = "replay" /\ local[th].scans \in {<<"access", "refresh">>, <<"refresh">>}
       \/ local[th].kind = "reuse" /\ local[th].scans \in {<<"family", "access">>, <<"access">>}
       \/ local[th].kind = "revoke" /\ local[th].scans = <<"family">>
  /\ pc[th] = "scan" => local[th].pos >= 1
  /\ local[th].kind = "reuse" => pc[local[th].family] = "done"
  /\ local[th].kind = "replay" => code_used

RequestsSound == \A th \in Thread : RequestSound(th)

\* A token's family was opened by a request that has ended, for the same grant.
FamiliesFounded ==
  \A i \in 1..Len(refresh_tokens) : Founded(refresh_tokens[i].family_id, refresh_tokens[i].grant)

\* Has the request redeemed the code or the device code?
Redeemed(th, grant) == local[th].kind = grant /\ pc[th] \in Putting \cup {"done"}

RedeemedOnce(grant) ==
  \A t, u \in Thread : Redeemed(t, grant) /\ Redeemed(u, grant) => t = u

\* "del" lets one request through, and before that none.
DeviceRedeemedOnce ==
  /\ device_present => \A th \in Thread : ~Redeemed(th, "device")
  /\ RedeemedOnce("device")

IndSound == TypeOK /\ RequestsSound /\ FamiliesFounded /\ DeviceRedeemedOnce

Usable(i) == ~(refresh_tokens[i].used \/ refresh_tokens[i].revoked)

\* What else is true as long as requests have not overlapped.
OneAtATime == \A t, u \in Thread : InFlight(t) /\ InFlight(u) => t = u

CodeRedeemedOnce ==
  /\ ~code_used => \A th \in Thread : ~Redeemed(th, "code")
  /\ RedeemedOnce("code")

RevokedInFamily(family) ==
  \A i \in 1..Len(refresh_tokens) :
    refresh_tokens[i].family_id = family => refresh_tokens[i].revoked

SerialSound(th) ==
  /\ pc[th] = "mark_code" => ~code_used
  /\ pc[th] = "mark_refresh" => Usable(local[th].token)
  /\ pc[th] \in Putting /\ local[th].kind = "rotate" =>
       \A i \in 1..Len(refresh_tokens) : refresh_tokens[i].family_id = local[th].family => ~Usable(i)
  /\ pc[th] \in Minting => ~Killed(local[th].family, local[th].grant)
  /\ pc[th] \in Scanning /\ local[th].kind = "reuse" /\ local[th].scans = <<"access">> =>
       RevokedInFamily(local[th].family)
  /\ pc[th] = "scan" /\ Head(local[th].scans) # "access" =>
       \A i \in 1..Len(refresh_tokens) :
         /\ i < local[th].pos
         /\ Head(local[th].scans) = "refresh" \/ refresh_tokens[i].family_id = local[th].family
         => refresh_tokens[i].revoked

Serially ==
  /\ OneAtATime
  /\ CodeRedeemedOnce
  /\ \A th \in Thread : SerialSound(th)
  /\ OneUsable
  /\ FailsClosed

IInv == IndSound /\ (~overlapped => Serially)

----------------------------------------------------------------------------
(* What the steps do.                                                      *)

\* The six ways in which a request can enter a handler.
Enters(th, label, l) ==
  /\ Enter(th, label, l) /\ label \in Label /\ l \in Local
  /\ \/ label = "mark_code" /\ ~code_used /\ l.kind = "code" /\ l.family = th /\ l.grant = "code"
     \/ label = "begin_scan" /\ code_used /\ l.kind = "replay" /\ l.scans = <<"access", "refresh">>
     \/ label = "del_device" /\ device_present /\ l.kind = "device" /\ l.family = th /\ l.grant = "device"
     \/ /\ label = "mark_refresh" /\ l.kind = "rotate" /\ l.token \in 1..Len(refresh_tokens)
        /\ Usable(l.token)
        /\ l.family = refresh_tokens[l.token].family_id /\ l.grant = refresh_tokens[l.token].grant
     \/ /\ label = "begin_scan" /\ l.kind = "reuse" /\ l.scans = <<"family", "access">>
        /\ \E i \in 1..Len(refresh_tokens) : l.family = refresh_tokens[i].family_id
     \/ label = "begin_scan" /\ l.kind = "revoke" /\ l.scans = <<"family">>

LEMMA RequestEnters ==
  ASSUME TypeOK, NEW th \in Thread, RequestSound(th), Request(th)
  PROVE  \E label, l : Enters(th, label, l)
<1>. USE DEF Local
<1>0. local[th] \in Local /\ \A i \in 1..Len(refresh_tokens) : refresh_tokens[i] \in Refresh
  BY DEF TypeOK
<1>1. pc[th] = "idle" /\ local[th].family = th
  <2>1. CheckCode(th) => pc[th] = "idle"
    BY DEF CheckCode, Enter
  <2>2. CheckDevice(th) => pc[th] = "idle"
    BY DEF CheckDevice, Enter
  <2>3. \A i : CheckRefresh(th, i) \/ CheckRevoke(th, i) => pc[th] = "idle"
    BY DEF CheckRefresh, CheckRevoke, Enter
  <2>. QED BY <2>1, <2>2, <2>3 DEF Request, RequestSound
<1>2. /\ <<"access", "refresh">> \in Seq({"access", "refresh", "family"})
      /\ <<"family", "access">> \in Seq({"access", "refresh", "family"})
      /\ <<"family">> \in Seq({"access", "refresh", "family"})
  OBVIOUS
<1>3. CASE CheckCode(th)
  <2>1. CASE code_used
    <3>. DEFINE l == [local[th] EXCEPT !.kind = "replay", !.scans = <<"access", "refresh">>]
    <3>1. Enter(th, "begin_scan", l)
      BY <1>3, <2>1 DEF CheckCode
    <3>2. l \in Local /\ l.kind = "replay" /\ l.scans = <<"access", "refresh">>
      BY <1>0, <1>2
    <3>. HIDE DEF l
    <3>. QED BY <2>1, <3>1, <3>2 DEF Enters, Label
  <2>2. CASE ~code_used
    <3>. DEFINE l == [local[th] EXCEPT !.kind = "code", !.grant = "code"]
    <3>1. Enter(th, "mark_code", l)
      BY <1>3, <2>2 DEF CheckCode
    <3>2. l \in Local /\ l.kind = "code" /\ l.grant = "code" /\ l.family = th
      BY <1>0, <1>1
    <3>. HIDE DEF l
    <3>. QED BY <2>2, <3>1, <3>2 DEF Enters, Label
  <2>. QED BY <2>1, <2>2
<1>4. CASE CheckDevice(th)
  <2>. DEFINE l == [local[th] EXCEPT !.kind = "device", !.grant = "device"]
  <2>1. Enter(th, "del_device", l) /\ device_present
    BY <1>4 DEF CheckDevice
  <2>2. l \in Local /\ l.kind = "device" /\ l.grant = "device" /\ l.family = th
    BY <1>0, <1>1
  <2>. HIDE DEF l
  <2>. QED BY <2>1, <2>2 DEF Enters, Label
<1>5. ASSUME NEW i \in 1..Len(refresh_tokens), CheckRefresh(th, i) PROVE \E label, l : Enters(th, label, l)
  <2>0. /\ refresh_tokens[i].family_id \in Thread /\ refresh_tokens[i].grant \in {"code", "device"}
        /\ i \in Nat
    BY <1>0 DEF Refresh
  <2>1. CASE ~Usable(i)
    <3>. DEFINE l == [[local[th] EXCEPT !.token = i, !.family = refresh_tokens[i].family_id,
                                        !.grant = refresh_tokens[i].grant]
                       EXCEPT !.kind = "reuse", !.scans = <<"family", "access">>]
    <3>1. Enter(th, "begin_scan", l)
      BY <1>5, <2>1 DEF CheckRefresh, Usable
    <3>2. l \in Local /\ l.kind = "reuse" /\ l.scans = <<"family", "access">>
          /\ l.family = refresh_tokens[i].family_id
      BY <1>0, <1>2, <2>0
    <3>. HIDE DEF l
    <3>. QED BY <3>1, <3>2 DEF Enters, Label
  <2>2. CASE Usable(i)
    <3>. DEFINE l == [[local[th] EXCEPT !.token = i, !.family = refresh_tokens[i].family_id,
                                        !.grant = refresh_tokens[i].grant]
                       EXCEPT !.kind = "rotate"]
    <3>1. Enter(th, "mark_refresh", l)
      BY <1>5, <2>2 DEF CheckRefresh, Usable
    <3>2. /\ l \in Local /\ l.kind = "rotate" /\ l.token = i
          /\ l.family = refresh_tokens[i].family_id /\ l.grant = refresh_tokens[i].grant
      BY <1>0, <2>0
    <3>. HIDE DEF l
    <3>. QED BY <2>2, <3>1, <3>2 DEF Enters, Label
  <2>. QED BY <2>1, <2>2
<1>6. ASSUME NEW i \in 1..Len(refresh_tokens), CheckRevoke(th, i) PROVE \E label, l : Enters(th, label, l)
  <2>. DEFINE l == [local[th] EXCEPT !.kind = "revoke", !.family = refresh_tokens[i].family_id,
                                     !.scans = <<"family">>]
  <2>0. refresh_tokens[i].family_id \in Thread
    BY <1>0 DEF Refresh
  <2>1. Enter(th, "begin_scan", l)
    BY <1>6 DEF CheckRevoke
  <2>2. l \in Local /\ l.kind = "revoke" /\ l.scans = <<"family">>
    BY <1>0, <1>2, <2>0
  <2>. HIDE DEF l
  <2>. QED BY <2>1, <2>2 DEF Enters, Label
<1>. QED BY <1>3, <1>4, <1>5, <1>6 DEF Request

\* Tokens are only added, and keep their family, their grant and their revocation.
TokensKept ==
  /\ Len(refresh_tokens) \in Nat /\ Len(refresh_tokens') \in Nat
  /\ Len(refresh_tokens) <= Len(refresh_tokens')
  /\ \A i \in 1..Len(refresh_tokens) :
       /\ refresh_tokens'[i].family_id = refresh_tokens[i].family_id
       /\ refresh_tokens'[i].grant = refresh_tokens[i].grant
       /\ refresh_tokens[i].revoked => refresh_tokens'[i].revoked

\* A step that adds no token.
NoneAdded == TokensKept /\ Len(refresh_tokens') = Len(refresh_tokens)

\* Setting a flag of one token.
LEMMA FlagSet ==
  ASSUME TypeOK, NEW i \in 1..Len(refresh_tokens),
         \/ refresh_tokens' = [refresh_tokens EXCEPT ![i].used = TRUE]
         \/ refresh_tokens' = [refresh_tokens EXCEPT ![i].revoked = TRUE]
  PROVE  /\ NoneAdded /\ refresh_tokens' \in Seq(Refresh)
         /\ refresh_tokens'[i].used \/ refresh_tokens'[i].revoked
         /\ \A j \in 1..Len(refresh_tokens) : Usable(j)' => Usable(j) /\ j # i
<1>1. /\ refresh_tokens \in Seq(Refresh) /\ Len(refresh_tokens) \in Nat
      /\ \A j \in 1..Len(refresh_tokens) : refresh_tokens[j] \in Refresh
  BY DEF TypeOK
<1>2. \A r \in Refresh : /\ [r EXCEPT !.used = TRUE] \in Refresh /\ [r EXCEPT !.revoked = TRUE] \in Refresh
                         /\ [r EXCEPT !.used = TRUE].used /\ [r EXCEPT !.revoked = TRUE].revoked
                         /\ [r EXCEPT !.used = TRUE].family_id = r.family_id
                         /\ [r EXCEPT !.revoked = TRUE].family_id = r.family_id
                         /\ [r EXCEPT !.used = TRUE].grant = r.grant
                         /\ [r EXCEPT !.revoked = TRUE].grant = r.grant
                         /\ [r EXCEPT !.used = TRUE].revoked = r.revoked
                         /\ [r EXCEPT !.revoked = TRUE].used = r.used
  BY DEF Refresh
<1>3. PICK r \in Refresh : /\ refresh_tokens' = [refresh_tokens EXCEPT ![i] = r]
                           /\ r.family_id = refresh_tokens[i].family_id
                           /\ r.grant = refresh_tokens[i].grant
                           /\ refresh_tokens[i].revoked => r.revoked
                           /\ r.used \/ r.revoked
  <2>1. CASE refresh_tokens' = [refresh_tokens EXCEPT ![i].used = TRUE]
    BY <1>1, <1>2, <2>1
  <2>2. CASE refresh_tokens' = [refresh_tokens EXCEPT ![i].revoked = TRUE]
    BY <1>1, <1>2, <2>2
  <2>. QED BY <2>1, <2>2
<1>4. /\ refresh_tokens' \in Seq(Refresh) /\ Len(refresh_tokens') = Len(refresh_tokens)
      /\ refresh_tokens'[i] = r /\ \A j \in 1..Len(refresh_tokens) : j # i => refresh_tokens'[j] = refresh_tokens[j]
  BY <1>1, <1>3
<1>. QED BY <1>1, <1>3, <1>4 DEF NoneAdded, TokensKept, Usable

\* What every step of a request leaves alone.
Frame(th) ==
  /\ pc[th] \notin {"done", "error"}
  /\ \A u \in Thread : u # th => pc'[u] = pc[u] /\ local'[u] = local[u]
  /\ TokensKept
  /\ code_used => code_used'
  /\ device_present' => device_present
  /\ overlapped => overlapped'

\* A request that has begun stays what it is.
SameRequest(th) ==
  /\ InFlight(th)
  /\ local'[th].kind = local[th].kind /\ local'[th].token = local[th].token
  /\ local'[th].family = local[th].family /\ local'[th].grant = local[th].grant
  /\ overlapped' = overlapped

LEMMA NothingAdded ==
  ASSUME TypeOK, UNCHANGED refresh_tokens
  PROVE  NoneAdded
<1>1. Len(refresh_tokens) \in Nat
  BY DEF TypeOK
<1>. QED BY <1>1 DEF NoneAdded, TokensKept

LEMMA EnterStep ==
  ASSUME TypeOK, NEW th \in Thread, NEW label, NEW l, Enters(th, label, l)
  PROVE  /\ TypeOK' /\ Frame(th) /\ NoneAdded
         /\ pc[th] = "idle" /\ pc'[th] = label /\ local'[th] = l
         /\ UNCHANGED <<code_used, device_present, refresh_tokens, access_tokens>>
         /\ ~overlapped' => ~overlapped /\ \A u \in Thread : ~InFlight(u)
<1>1. /\ pc[th] = "idle" /\ pc' = [pc EXCEPT ![th] = label] /\ local' = [local EXCEPT ![th] = l]
      /\ overlapped' = (overlapped \/ \E other \in Thread : InFlight(other))
      /\ UNCHANGED <<code_used, device_present, refresh_tokens, access_tokens>>
      /\ label \in Label /\ l \in Local
  BY DEF Enters, Enter, Goto
<1>2. pc \in [Thread -> Label] /\ local \in [Thread -> Local]
  BY DEF TypeOK
<1>3. pc' \in [Thread -> Label] /\ local' \in [Thread -> Local] /\ pc'[th] = label /\ local'[th] = l
  BY <1>1, <1>2
<1>4. \A u \in Thread : u # th => pc'[u] = pc[u] /\ local'[u] = local[u]
  BY <1>1, <1>2
<1>5. overlapped' \in BOOLEAN /\ (~overlapped' => ~overlapped /\ \A u \in Thread : ~InFlight(u))
  BY <1>1
<1>6. TypeOK'
  BY <1>1, <1>3, <1>5 DEF TypeOK
<1>7. NoneAdded
  BY <1>1, NothingAdded
<1>8. overlapped => overlapped'
  BY <1>1
<1>9. TokensKept
  BY <1>7 DEF NoneAdded
<1>10. Frame(th)
  BY <1>1, <1>4, <1>8, <1>9 DEF Frame
<1>. QED BY <1>1, <1>3, <1>5, <1>6, <1>7, <1>10

\* The token that a scan has reached.
LEMMA ScanPlace ==
  ASSUME TypeOK, NEW th \in Thread, RequestSound(th), ScanNext(th)
  PROVE  /\ Head(local[th].scans) = "access" => local[th].pos \in 1..Len(access_tokens)
         /\ Head(local[th].scans) # "access" => local[th].pos \in 1..Len(refresh_tokens)
<1>1. local[th].pos \in Nat /\ local[th].pos >= 1 /\ local[th].pos <= local[th].size
  BY DEF TypeOK, Local, ScanNext, RequestSound
<1>2. Len(Scanned(th)) = local[th].size
  BY DEF ScanNext
<1>3. Len(access_tokens) \in Nat /\ Len(refresh_tokens) \in Nat
  BY DEF TypeOK
<1>. QED BY <1>1, <1>2, <1>3 DEF Scanned

\* What one turn of a loop does to the tokens.
LEMMA ScanEffect ==
  ASSUME TypeOK, NEW th \in Thread, RequestSound(th), ScanNext(th)
  PROVE  /\ NoneAdded /\ refresh_tokens' \in Seq(Refresh) /\ access_tokens' \in Seq(Access)
         /\ \A j \in 1..Len(refresh_tokens) : Usable(j)' => Usable(j)
         /\ /\ Head(local[th].scans) # "access"
            /\ Head(local[th].scans) = "refresh" \/ refresh_tokens[local[th].pos].family_id = local[th].family
            => refresh_tokens'[local[th].pos].revoked
<1>. DEFINE i == local[th].pos
            head == Head(local[th].scans)
<1>0. refresh_tokens \in Seq(Refresh) /\ access_tokens \in Seq(Access)
  BY DEF TypeOK
<1>1. CASE head = "access"
  <2>1. UNCHANGED refresh_tokens /\ access_tokens' = [access_tokens EXCEPT ![i].revoked = TRUE]
    BY <1>1 DEF ScanNext, RevokeOne
  <2>2. i \in 1..Len(access_tokens)
    BY <1>1, ScanPlace
  <2>3. access_tokens[i] \in Access
    BY <1>0, <2>2
  <2>4. [access_tokens[i] EXCEPT !.revoked = TRUE] \in Access
    BY <2>3 DEF Access
  <2>5. access_tokens' \in Seq(Access)
    BY <1>0, <2>1, <2>2, <2>4
  <2>6. NoneAdded
    BY <2>1, NothingAdded
  <2>. QED BY <1>0, <1>1, <2>1, <2>5, <2>6 DEF Usable
<1>2. CASE head # "access" /\ (head = "refresh" \/ refresh_tokens[i].family_id = local[th].family)
  <2>1. UNCHANGED access_tokens /\ refresh_tokens' = [refresh_tokens EXCEPT ![i].revoked = TRUE]
    BY <1>2 DEF ScanNext, RevokeOne
  <2>2. i \in 1..Len(refresh_tokens)
    BY <1>2, ScanPlace
  <2>3. /\ NoneAdded /\ refresh_tokens' \in Seq(Refresh)
        /\ \A j \in 1..Len(refresh_tokens) : Usable(j)' => Usable(j)
    BY <2>1, <2>2, FlagSet
  <2>4. refresh_tokens[i] \in Refresh
    BY <1>0, <2>2
  <2>5. [refresh_tokens[i] EXCEPT !.revoked = TRUE].revoked
    BY <2>4 DEF Refresh
  <2>6. refresh_tokens'[i].revoked
    BY <1>0, <2>1, <2>2, <2>5
  <2>. QED BY <1>0, <2>1, <2>3, <2>6
<1>3. CASE head # "access" /\ ~(head = "refresh" \/ refresh_tokens[i].family_id = local[th].family)
  <2>1. UNCHANGED <<refresh_tokens, access_tokens>>
    BY <1>3 DEF ScanNext, RevokeOne
  <2>2. NoneAdded
    BY <2>1, NothingAdded
  <2>. QED BY <1>0, <1>3, <2>1, <2>2 DEF Usable
<1>. QED BY <1>1, <1>2, <1>3

\* A step of a request under way.
LEMMA ContinueStep ==
  ASSUME TypeOK, NEW th \in Thread, RequestSound(th), Continue(th)
  PROVE  TypeOK' /\ Frame(th) /\ SameRequest(th)
<1>0. /\ pc \in [Thread -> Label] /\ local \in [Thread -> Local]
      /\ refresh_tokens \in Seq(Refresh) /\ access_tokens \in Seq(Access)
      /\ code_used \in BOOLEAN /\ device_present \in BOOLEAN /\ overlapped \in BOOLEAN
      /\ local[th] \in Local
  BY DEF TypeOK
<1>1. ASSUME NEW label \in Label, InFlight(th), Goto(th, label), UNCHANGED <<local, overlapped>>,
             refresh_tokens' \in Seq(Refresh), access_tokens' \in Seq(Access), TokensKept,
             code_used' \in BOOLEAN, code_used => code_used',
             device_present' \in BOOLEAN, device_present' => device_present
      PROVE  TypeOK' /\ Frame(th) /\ SameRequest(th)
  <2>1. pc' \in [Thread -> Label] /\ \A u \in Thread : u # th => pc'[u] = pc[u]
    BY <1>0, <1>1 DEF Goto
  <2>2. TypeOK'
    BY <1>0, <1>1, <2>1 DEF TypeOK
  <2>3. Frame(th)
    BY <1>1, <2>1 DEF Frame, InFlight
  <2>4. SameRequest(th)
    BY <1>1 DEF SameRequest
  <2>. QED BY <2>2, <2>3, <2>4
<1>2. ASSUME NEW label \in Label, InFlight(th), Goto(th, label), UNCHANGED <<local, overlapped, refresh_tokens>>,
             access_tokens' \in Seq(Access),
             code_used' \in BOOLEAN, code_used => code_used',
             device_present' \in BOOLEAN, device_present' => device_present
      PROVE  TypeOK' /\ Frame(th) /\ SameRequest(th)
  <2>1. TokensKept /\ refresh_tokens' \in Seq(Refresh)
    BY <1>0, <1>2, NothingAdded DEF NoneAdded
  <2>. QED BY <1>1, <1>2, <2>1
<1>3. ASSUME NEW l \in Local, NEW label \in Label, InFlight(th), local' = [local EXCEPT ![th] = l],
             l.kind = local[th].kind, l.family = local[th].family, l.grant = local[th].grant,
             l.token = local[th].token, pc' = [pc EXCEPT ![th] = label],
             UNCHANGED <<code_used, device_present, overlapped>>,
             refresh_tokens' \in Seq(Refresh), access_tokens' \in Seq(Access), TokensKept
      PROVE  TypeOK' /\ Frame(th) /\ SameRequest(th)
  <2>1. /\ local' \in [Thread -> Local] /\ local'[th] = l /\ pc' \in [Thread -> Label]
        /\ \A u \in Thread : u # th => pc'[u] = pc[u] /\ local'[u] = local[u]
    BY <1>0, <1>3
  <2>2. TypeOK'
    BY <1>0, <1>3, <2>1 DEF TypeOK
  <2>3. Frame(th)
    BY <1>3, <2>1 DEF Frame, InFlight
  <2>4. SameRequest(th)
    BY <1>3, <2>1 DEF SameRequest
  <2>. QED BY <2>2, <2>3, <2>4
<1>4. CASE MarkCode(th)
  BY <1>0, <1>2, <1>4 DEF MarkCode, InFlight, Label
<1>5. CASE MarkRefresh(th)
  <2>1. local[th].token \in 1..Len(refresh_tokens)
    BY <1>5 DEF MarkRefresh, RequestSound
  <2>2. refresh_tokens' = [refresh_tokens EXCEPT ![local[th].token].used = TRUE]
    BY <1>5 DEF MarkRefresh
  <2>3. TokensKept /\ refresh_tokens' \in Seq(Refresh)
    BY <2>1, <2>2, FlagSet DEF NoneAdded
  <2>. QED BY <1>0, <1>1, <1>5, <2>3 DEF MarkRefresh, InFlight, Label
<1>6. CASE DelDevice(th)
  <2>1. (IF device_present THEN "put_access" ELSE "error") \in Label
    BY DEF Label
  <2>. QED BY <1>0, <1>2, <1>6, <2>1 DEF DelDevice, InFlight
<1>7. CASE PutAccess(th)
  <2>1. [family |-> local[th].family, grant |-> local[th].grant, revoked |-> FALSE] \in Access
    BY <1>0 DEF Local, Access
  <2>2. access_tokens' \in Seq(Access)
    BY <1>0, <1>7, <2>1 DEF PutAccess
  <2>. QED BY <1>0, <1>2, <1>7, <2>2 DEF PutAccess, InFlight, Label
<1>8. CASE PutRefresh(th)
  <2>. DEFINE t == [family_id |-> local[th].family, grant |-> local[th].grant, used |-> FALSE, revoked |-> FALSE]
  <2>1. t \in Refresh
    BY <1>0 DEF Local, Refresh
  <2>2. refresh_tokens' = Append(refresh_tokens, t)
    BY <1>8 DEF PutRefresh
  <2>. HIDE DEF t
  <2>3. /\ refresh_tokens' \in Seq(Refresh) /\ Len(refresh_tokens') = Len(refresh_tokens) + 1
        /\ \A i \in 1..Len(refresh_tokens) : refresh_tokens'[i] = refresh_tokens[i]
        /\ Len(refresh_tokens) \in Nat
    BY <1>0, <2>1, <2>2
  <2>4. TokensKept
    BY <2>3 DEF TokensKept
  <2>. QED BY <1>0, <1>1, <1>8, <2>3, <2>4 DEF PutRefresh, InFlight, Label
<1>9. CASE BeginScan(th)
  <2>. DEFINE l == [local[th] EXCEPT !.pos = 1, !.size = Len(Scanned(th))]
  <2>1. Len(Scanned(th)) \in Nat
    BY <1>0 DEF Scanned
  <2>2. /\ l \in Local /\ l.kind = local[th].kind /\ l.family = local[th].family
        /\ l.grant = local[th].grant /\ l.token = local[th].token
    BY <1>0, <2>1 DEF Local
  <2>3. local' = [local EXCEPT ![th] = l] /\ pc' = [pc EXCEPT ![th] = "scan"]
    BY <1>9 DEF BeginScan, Goto
  <2>4. TokensKept
    BY <1>9, NothingAdded DEF BeginScan, NoneAdded
  <2>5. InFlight(th) /\ "scan" \in Label
    BY <1>9 DEF BeginScan, InFlight, Label
  <2>. HIDE DEF l
  <2>. QED BY <1>0, <1>3, <1>9, <2>2, <2>3, <2>4, <2>5 DEF BeginScan
<1>10. CASE ScanNext(th)
  <2>. DEFINE l == [local[th] EXCEPT !.pos = @ + 1]
  <2>0. local[th].pos \in Nat /\ local[th].pos + 1 \in Nat
    BY <1>0 DEF Local
  <2>1. /\ l \in Local /\ l.kind = local[th].kind /\ l.family = local[th].family
        /\ l.grant = local[th].grant /\ l.token = local[th].token
    BY <1>0, <2>0 DEF Local
  <2>2. local' = [local EXCEPT ![th] = l] /\ pc' = pc /\ pc[th] = "scan"
    BY <1>10 DEF ScanNext
  <2>3. pc' = [pc EXCEPT ![th] = "scan"]
    BY <1>0, <2>2
  <2>4. TokensKept /\ refresh_tokens' \in Seq(Refresh) /\ access_tokens' \in Seq(Access)
    BY <1>10, ScanEffect DEF NoneAdded
  <2>5. InFlight(th) /\ "scan" \in Label
    BY <2>2 DEF InFlight, Label
  <2>. HIDE DEF l
  <2>. QED BY <1>3, <1>10, <2>1, <2>2, <2>3, <2>4, <2>5 DEF ScanNext
<1>11. CASE EndScan(th)
  <2>. DEFINE l == [local[th] EXCEPT !.scans = Tail(@)]
              label == IF Len(local[th].scans) > 1 THEN "begin_scan" ELSE "done"
  <2>0. pc[th] = "scan"
    BY <1>11 DEF EndScan
  <2>1. local[th].scans \in Seq({"access", "refresh", "family"}) /\ local[th].scans # <<>>
    <3>1. local[th].scans \in Seq({"access", "refresh", "family"})
      BY <1>0 DEF Local
    <3>2. local[th].scans \in {<<"access", "refresh">>, <<"refresh">>, <<"family", "access">>, <<"access">>, <<"family">>}
      BY <2>0 DEF RequestSound, Scanning
    <3>3. /\ <<"access", "refresh">> # <<>> /\ <<"family", "access">> # <<>>
          /\ <<"refresh">> # <<>> /\ <<"access">> # <<>> /\ <<"family">> # <<>>
      OBVIOUS
    <3>. QED BY <3>1, <3>2, <3>3
  <2>2. Tail(local[th].scans) \in Seq({"access", "refresh", "family"})
    BY <2>1
  <2>3. /\ l \in Local /\ l.kind = local[th].kind /\ l.family = local[th].family
        /\ l.grant = local[th].grant /\ l.token = local[th].token
    BY <1>0, <2>2 DEF Local
  <2>4. local' = [local EXCEPT ![th] = l] /\ pc' = [pc EXCEPT ![th] = label]
    BY <1>11 DEF EndScan, Goto
  <2>5. TokensKept
    BY <1>11, NothingAdded DEF EndScan, NoneAdded
  <2>6. InFlight(th) /\ label \in Label
    BY <1>11 DEF EndScan, InFlight, Label
  <2>. HIDE DEF l, label
  <2>. QED BY <1>0, <1>3, <1>11, <2>3, <2>4, <2>5, <2>6 DEF EndScan
<1>12. CASE AbortScan(th)
  BY <1>0, <1>2, <1>12 DEF AbortScan, InFlight, Label
<1>. QED
  BY <1>4, <1>5, <1>6, <1>7, <1>8, <1>9, <1>10, <1>11, <1>12 DEF Continue

----------------------------------------------------------------------------
(* What holds whether requests overlap or not.                             *)

LEMMA FoundedKept ==
  ASSUME NEW th \in Thread, Frame(th), NEW f \in Thread, NEW g, Founded(f, g)
  PROVE  pc'[f] = "done" /\ local'[f].kind = g
BY DEF Frame, Founded

LEMMA OthersSound ==
  ASSUME TypeOK, NEW th \in Thread, Frame(th), NEW u \in Thread, u # th, RequestSound(u)
  PROVE  RequestSound(u)'
<1>1. pc'[u] = pc[u] /\ local'[u] = local[u] /\ local[u].family \in Thread /\ local[u] \in Local
  BY DEF Frame, TypeOK, Local
<1>2. /\ pc[local[u].family] = "done" => pc'[local[u].family] = "done"
      /\ Founded(local[u].family, local[u].grant) => Founded(local[u].family, local[u].grant)'
  BY <1>1 DEF Frame, Founded
<1>3. pc[u] = "mark_refresh" =>
        /\ local[u].token \in 1..Len(refresh_tokens')
        /\ refresh_tokens'[local[u].token].family_id = local[u].family
        /\ refresh_tokens'[local[u].token].grant = local[u].grant
  BY DEF RequestSound, Frame, TokensKept
<1>4. pc[u] \in Putting =>
       \/ local[u].kind \in {"code", "device"} /\ local[u].family = u /\ local[u].grant = local[u].kind
       \/ local[u].kind = "rotate" /\ Founded(local[u].family, local[u].grant)'
  BY <1>2 DEF RequestSound
<1>5. code_used => code_used'
  BY DEF Frame
<1>. QED BY <1>1, <1>2, <1>3, <1>4, <1>5 DEF RequestSound, Founded, Putting, Scanning

LEMMA EnteredSound ==
  ASSUME IndSound, NEW th \in Thread, NEW label, NEW l, Enters(th, label, l)
  PROVE  RequestSound(th)'
<1>. USE EnterStep DEF IndSound
<1>1. pc'[th] = label /\ local'[th] = l /\ UNCHANGED <<code_used, refresh_tokens>>
  OBVIOUS
<1>2. ASSUME NEW i \in 1..Len(refresh_tokens), l.family = refresh_tokens[i].family_id
      PROVE  pc'[l.family] = "done"
  <2>0. refresh_tokens[i] \in Refresh
    BY DEF TypeOK
  <2>1. l.family \in Thread /\ pc[l.family] = "done"
    BY <1>2, <2>0 DEF FamiliesFounded, Founded, Refresh
  <2>. QED BY <2>1 DEF Frame
<1>. QED BY <1>1, <1>2 DEF Enters, RequestSound, Putting, Scanning

LEMMA ContinuedSound ==
  ASSUME IndSound, NEW th \in Thread, Continue(th)
  PROVE  RequestSound(th)'
<1>0. TypeOK' /\ Frame(th) /\ SameRequest(th) /\ TypeOK /\ RequestSound(th)
  BY ContinueStep DEF IndSound, RequestsSound
<1>1. /\ local[th] \in Local /\ local'[th] \in Local /\ local[th].family \in Thread
      /\ local'[th].kind = local[th].kind /\ local'[th].family = local[th].family
      /\ local'[th].grant = local[th].grant
      /\ pc \in [Thread -> Label] /\ local \in [Thread -> Local]
  BY <1>0 DEF TypeOK, SameRequest, Local
<1>2. /\ local[th].kind = "reuse" => pc'[local[th].family] = "done"
      /\ local[th].kind = "replay" => code_used'
      /\ Founded(local[th].family, local[th].grant) => Founded(local[th].family, local[th].grant)'
  BY <1>0, <1>1 DEF RequestSound, Frame, Founded
<1>3. ASSUME pc'[th] \in Putting,
             \/ local[th].kind \in {"code", "device"} /\ local[th].family = th /\ local[th].grant = local[th].kind
             \/ local[th].kind = "rotate" /\ Founded(local[th].family, local[th].grant)
      PROVE  RequestSound(th)'
  BY <1>1, <1>2, <1>3 DEF RequestSound, Putting, Scanning, Founded
<1>4. ASSUME pc'[th] \in {"done", "error"}
      PROVE  RequestSound(th)'
  BY <1>1, <1>2, <1>4 DEF RequestSound, Putting, Scanning
<1>5. ASSUME pc'[th] \in Scanning, local'[th].pos >= 1,
             \/ local[th].kind = "replay" /\ local'[th].scans \in {<<"access", "refresh">>, <<"refresh">>}
             \/ local[th].kind = "reuse" /\ local'[th].scans \in {<<"family", "access">>, <<"access">>}
             \/ local[th].kind = "revoke" /\ local'[th].scans = <<"family">>
      PROVE  RequestSound(th)'
  BY <1>1, <1>2, <1>5 DEF RequestSound, Putting, Scanning
<1>6. CASE MarkCode(th)
  <2>1. pc[th] = "mark_code" /\ pc'[th] = "put_access"
    BY <1>1, <1>6 DEF MarkCode, Goto
  <2>. QED BY <1>0, <1>3, <2>1 DEF RequestSound, Putting
<1>7. CASE MarkRefresh(th)
  <2>1. pc[th] = "mark_refresh" /\ pc'[th] = "put_access"
    BY <1>1, <1>7 DEF MarkRefresh, Goto
  <2>2. Founded(local[th].family, local[th].grant)
    BY <1>0, <2>1 DEF RequestSound, IndSound, FamiliesFounded
  <2>. QED BY <1>0, <1>3, <2>1, <2>2 DEF RequestSound, Putting
<1>8. CASE DelDevice(th)
  <2>1. pc[th] = "del_device" /\ pc'[th] \in {"put_access", "error"}
    BY <1>1, <1>8 DEF DelDevice, Goto
  <2>. QED BY <1>0, <1>3, <1>4, <2>1 DEF RequestSound, Putting
<1>9. CASE PutAccess(th)
  <2>1. pc[th] = "put_access" /\ pc'[th] = "put_refresh"
    BY <1>1, <1>9 DEF PutAccess, Goto
  <2>. QED BY <1>0, <1>3, <2>1 DEF RequestSound, Putting
<1>10. CASE PutRefresh(th)
  BY <1>1, <1>4, <1>10 DEF PutRefresh, Goto
<1>11. CASE BeginScan(th)
  <2>1. pc[th] = "begin_scan" /\ pc'[th] = "scan"
    BY <1>1, <1>11 DEF BeginScan, Goto
  <2>2. local'[th].pos = 1 /\ local'[th].scans = local[th].scans
    BY <1>1, <1>11 DEF BeginScan, Local
  <2>. QED BY <1>0, <1>5, <2>1, <2>2 DEF RequestSound, Scanning
<1>12. CASE ScanNext(th)
  <2>1. pc[th] = "scan" /\ pc'[th] = "scan"
    BY <1>12 DEF ScanNext
  <2>2. local'[th].pos = local[th].pos + 1 /\ local'[th].scans = local[th].scans /\ local[th].pos \in Nat
    BY <1>1, <1>12 DEF ScanNext, Local
  <2>. QED BY <1>0, <1>5, <2>1, <2>2 DEF RequestSound, Scanning
<1>13. CASE EndScan(th)
  <2>1. /\ pc[th] = "scan" /\ local'[th].scans = Tail(local[th].scans) /\ local'[th].pos = local[th].pos
        /\ pc'[th] = IF Len(local[th].scans) > 1 THEN "begin_scan" ELSE "done"
    BY <1>1, <1>13 DEF EndScan, Goto, Local
  <2>2. CASE Len(local[th].scans) > 1
    <3>1. pc'[th] \in Scanning /\ local'[th].pos >= 1
      BY <1>0, <2>1, <2>2 DEF RequestSound, Scanning
    <3>2. \/ local[th].kind = "replay" /\ local[th].scans = <<"access", "refresh">>
          \/ local[th].kind = "reuse" /\ local[th].scans = <<"family", "access">>
      <4>1. \A s : s \in {<<"refresh">>, <<"access">>, <<"family">>} => ~(Len(s) > 1)
        <5>1. ~(Len(<<"refresh">>) > 1) /\ ~(Len(<<"access">>) > 1) /\ ~(Len(<<"family">>) > 1)
          OBVIOUS
        <5>. QED BY <5>1, Zenon
      <4>2. \/ local[th].kind = "replay" /\ local[th].scans \in {<<"access", "refresh">>, <<"refresh">>}
            \/ local[th].kind = "reuse" /\ local[th].scans \in {<<"family", "access">>, <<"access">>}
            \/ local[th].kind = "revoke" /\ local[th].scans = <<"family">>
        BY <1>0, <2>1 DEF RequestSound, Scanning
      <4>3. local[th].scans \notin {<<"refresh">>, <<"access">>, <<"family">>}
        BY <2>2, <4>1, Zenon
      <4>. QED BY <4>2, <4>3
    <3>3. Tail(<<"access", "refresh">>) = <<"refresh">> /\ Tail(<<"family", "access">>) = <<"access">>
      OBVIOUS
    <3>. QED BY <1>5, <2>1, <3>1, <3>2, <3>3
  <2>. QED BY <1>4, <2>1, <2>2
<1>14. CASE AbortScan(th)
  BY <1>1, <1>4, <1>14 DEF AbortScan, Goto
<1>. QED
  BY <1>6, <1>7, <1>8, <1>9, <1>10, <1>11, <1>12, <1>13, <1>14 DEF Continue

\* Who redeems: the code at mark_code, the device code at its "del".
LEMMA WhoRedeems ==
  ASSUME TypeOK, NEW th \in Thread, RequestSound(th), NEW g \in {"code", "device"},
         \/ \E label, l : Enters(th, label, l)
         \/ Continue(th)
  PROVE  /\ \A u \in Thread : u # th => (Redeemed(u, g)' <=> Redeemed(u, g))
         /\ Redeemed(th, g)' =>
              \/ Redeemed(th, g)
              \/ g = "code" /\ MarkCode(th)
              \/ g = "device" /\ DelDevice(th) /\ device_present
<1>1. CASE \E label, l : Enters(th, label, l)
  <2>1. PICK label, l : Enters(th, label, l)
    BY <1>1
  <2>2. Frame(th) /\ pc'[th] = label
    BY <2>1, EnterStep
  <2>. QED BY <2>1, <2>2 DEF Frame, Redeemed, Putting, Enters
<1>2. CASE Continue(th)
  <2>0. Frame(th) /\ SameRequest(th)
    BY <1>2, ContinueStep
  <2>1. pc \in [Thread -> Label]
    BY DEF TypeOK
  <2>2. \A u \in Thread : u # th => (Redeemed(u, g)' <=> Redeemed(u, g))
    BY <2>0 DEF Frame, Redeemed
  <2>3. ASSUME Redeemed(th, g)', ~Redeemed(th, g)
        PROVE  \/ g = "code" /\ MarkCode(th)
               \/ g = "device" /\ DelDevice(th) /\ device_present
    <3>1. local[th].kind = g /\ pc'[th] \in Putting \cup {"done"} /\ pc[th] \notin Putting
      BY <2>0, <2>3 DEF SameRequest, Redeemed
    <3>2. pc[th] \notin Scanning /\ pc[th] # "mark_refresh"
      BY <3>1 DEF RequestSound
    <3>3. CASE MarkCode(th)
      <4>1. pc[th] = "mark_code"
        BY <3>3 DEF MarkCode
      <4>2. local[th].kind = "code"
        BY <4>1 DEF RequestSound
      <4>. QED BY <3>1, <3>3, <4>2
    <3>4. CASE DelDevice(th)
      <4>1. pc[th] = "del_device" /\ pc'[th] = IF device_present THEN "put_access" ELSE "error"
        BY <2>1, <3>4 DEF DelDevice, Goto
      <4>. QED BY <3>1, <3>4, <4>1 DEF RequestSound, Putting
    <3>. QED BY <1>2, <3>1, <3>2, <3>3, <3>4
           DEF Continue, MarkRefresh, PutAccess, PutRefresh, BeginScan, ScanNext, EndScan, AbortScan,
               Putting, Scanning
  <2>. QED BY <2>2, <2>3
<1>. QED BY <1>1, <1>2

\* Only put_refresh adds a token.
LEMMA NoTokenAdded ==
  ASSUME TypeOK, NEW th \in Thread, RequestSound(th), Request(th) \/ Continue(th), ~PutRefresh(th)
  PROVE  NoneAdded
<1>1. CASE Request(th)
  BY <1>1, RequestEnters, EnterStep
<1>2. CASE MarkRefresh(th)
  BY <1>2, FlagSet DEF MarkRefresh, RequestSound
<1>3. CASE ScanNext(th)
  BY <1>3, ScanEffect
<1>4. CASE MarkCode(th) \/ DelDevice(th) \/ PutAccess(th) \/ BeginScan(th) \/ EndScan(th) \/ AbortScan(th)
  BY <1>4, NothingAdded DEF MarkCode, DelDevice, PutAccess, BeginScan, EndScan, AbortScan
<1>. QED BY <1>1, <1>2, <1>3, <1>4 DEF Continue

LEMMA IndSoundKept ==
  ASSUME IndSound, NEW th \in Thread, Request(th) \/ Continue(th)
  PROVE  IndSound'
<1>0. TypeOK /\ \A u \in Thread : RequestSound(u)
  BY DEF IndSound, RequestsSound
<1>1. Request(th) => \E label, l : Enters(th, label, l)
  BY <1>0, RequestEnters
<1>2. TypeOK' /\ Frame(th) /\ RequestSound(th)'
  <2>1. CASE Request(th)
    BY <1>0, <1>1, <2>1, EnterStep, EnteredSound
  <2>2. CASE Continue(th)
    BY <1>0, <2>2, ContinueStep, ContinuedSound
  <2>. QED BY <2>1, <2>2
<1>3. RequestsSound'
  BY <1>0, <1>2, OthersSound DEF RequestsSound
<1>4. FamiliesFounded'
  <2>1. ASSUME NEW i \in 1..Len(refresh_tokens)
        PROVE  pc'[refresh_tokens'[i].family_id] = "done" /\ local'[refresh_tokens'[i].family_id].kind = refresh_tokens'[i].grant
    <3>1. refresh_tokens[i] \in Refresh
      BY <1>0 DEF TypeOK
    <3>2. refresh_tokens[i].family_id \in Thread
      BY <3>1 DEF Refresh
    <3>3. Founded(refresh_tokens[i].family_id, refresh_tokens[i].grant)
      BY DEF IndSound, FamiliesFounded
    <3>4. /\ pc'[refresh_tokens[i].family_id] = "done"
          /\ local'[refresh_tokens[i].family_id].kind = refresh_tokens[i].grant
      BY <1>2, <3>2, <3>3, FoundedKept
    <3>5. /\ refresh_tokens'[i].family_id = refresh_tokens[i].family_id
          /\ refresh_tokens'[i].grant = refresh_tokens[i].grant
      BY <1>2 DEF Frame, TokensKept
    <3>. QED BY <3>4, <3>5
  <2>2. CASE PutRefresh(th)
    <3>. DEFINE t == [family_id |-> local[th].family, grant |-> local[th].grant, used |-> FALSE, revoked |-> FALSE]
    <3>1. refresh_tokens' = Append(refresh_tokens, t) /\ local' = local /\ pc[th] = "put_refresh"
          /\ pc'[th] = "done"
      BY <1>0, <2>2 DEF PutRefresh, Goto, TypeOK
    <3>2. t \in Refresh
      BY <1>0 DEF TypeOK, Local, Refresh
    <3>3. t.family_id = local[th].family /\ t.grant = local[th].grant
      OBVIOUS
    <3>. HIDE DEF t
    <3>4. /\ Len(refresh_tokens') = Len(refresh_tokens) + 1 /\ Len(refresh_tokens) \in Nat
          /\ refresh_tokens'[Len(refresh_tokens) + 1] = t
      BY <1>0, <3>1, <3>2 DEF TypeOK
    <3>5. Founded(local[th].family, local[th].grant)'
      <4>1. local[th].family \in Thread
        BY <1>0 DEF TypeOK, Local
      <4>2. CASE local[th].kind = "rotate"
        <5>1. Founded(local[th].family, local[th].grant)
          BY <1>0, <3>1, <4>2 DEF RequestSound, Putting
        <5>2. pc[local[th].family] = "done" /\ local[local[th].family].kind = local[th].grant
          BY <5>1 DEF Founded
        <5>. QED BY <1>2, <3>1, <4>1, <5>2 DEF Frame, Founded
      <4>3. CASE local[th].kind # "rotate"
        BY <1>0, <3>1, <4>3 DEF RequestSound, Putting, Founded
      <4>. QED BY <4>2, <4>3
    <3>6. ASSUME NEW i \in 1..Len(refresh_tokens')
          PROVE  pc'[refresh_tokens'[i].family_id] = "done" /\ local'[refresh_tokens'[i].family_id].kind = refresh_tokens'[i].grant
      <4>1. CASE i = Len(refresh_tokens) + 1
        BY <3>1, <3>3, <3>4, <3>5, <4>1 DEF Founded
      <4>2. CASE i \in 1..Len(refresh_tokens)
        BY <2>1, <4>2
      <4>. QED BY <3>4, <4>1, <4>2
    <3>. QED BY <3>6 DEF FamiliesFounded, Founded
  <2>3. CASE ~PutRefresh(th)
    <3>1. NoneAdded
      BY <1>0, <2>3, NoTokenAdded
    <3>2. ASSUME NEW i \in 1..Len(refresh_tokens')
          PROVE  pc'[refresh_tokens'[i].family_id] = "done" /\ local'[refresh_tokens'[i].family_id].kind = refresh_tokens'[i].grant
      BY <2>1, <3>1 DEF NoneAdded
    <3>. QED BY <3>2 DEF FamiliesFounded, Founded
  <2>. QED BY <2>2, <2>3
<1>5. DeviceRedeemedOnce'
  <2>1. DeviceRedeemedOnce
    BY DEF IndSound
  <2>2. /\ \A u \in Thread : u # th => (Redeemed(u, "device")' <=> Redeemed(u, "device"))
        /\ Redeemed(th, "device")' => Redeemed(th, "device") \/ (DelDevice(th) /\ device_present)
    <3>1. (\E label, l : Enters(th, label, l)) \/ Continue(th)
      BY <1>1
    <3>2. "device" \in {"code", "device"} /\ "device" # "code"
      OBVIOUS
    <3>. QED BY <1>0, <3>1, <3>2, WhoRedeems
  <2>3. device_present' => device_present
    BY <1>2 DEF Frame
  <2>4. DelDevice(th) => ~device_present'
    BY DEF DelDevice
  <2>. QED BY <2>1, <2>2, <2>3, <2>4 DEF DeviceRedeemedOnce, RedeemedOnce
<1>. QED BY <1>2, <1>3, <1>4, <1>5 DEF IndSound

----------------------------------------------------------------------------
(* What holds as long as requests do not overlap.                          *)

\* A request that ends in no report of a reuse or replay kills nothing.
Quiet(th) == pc'[th] = "done" => local'[th].kind \notin {"reuse", "replay"}

LEMMA NothingKilled ==
  ASSUME NEW th \in Thread, Frame(th), Quiet(th), NEW f, NEW g, Killed(f, g)'
  PROVE  Killed(f, g)
<1>1. PICK u \in Thread :
        /\ pc'[u] = "done"
        /\ \/ local'[u].kind = "reuse" /\ local'[u].family = f
           \/ local'[u].kind = "replay" /\ g = "code"
  BY DEF Killed
<1>2. u # th
  BY <1>1 DEF Quiet
<1>. QED BY <1>1, <1>2 DEF Frame, Killed

LEMMA FailsClosedKept ==
  ASSUME NEW th \in Thread, Frame(th), Quiet(th), NoneAdded, FailsClosed
  PROVE  FailsClosed'
<1>1. SUFFICES ASSUME NEW i \in 1..Len(refresh_tokens'), NEW f, NEW g,
                      f = refresh_tokens'[i].family_id, g = refresh_tokens'[i].grant, Killed(f, g)'
               PROVE  refresh_tokens'[i].revoked
  BY DEF FailsClosed, Killed
<1>2. Killed(f, g)
  BY <1>1, NothingKilled
<1>3. /\ i \in 1..Len(refresh_tokens) /\ f = refresh_tokens[i].family_id /\ g = refresh_tokens[i].grant
      /\ refresh_tokens[i].revoked => refresh_tokens'[i].revoked
  BY <1>1 DEF NoneAdded, TokensKept
<1>. QED BY <1>2, <1>3 DEF FailsClosed

LEMMA OneUsableKept ==
  ASSUME OneUsable, NoneAdded, \A j \in 1..Len(refresh_tokens) : Usable(j)' => Usable(j)
  PROVE  OneUsable'
BY DEF OneUsable, NoneAdded, TokensKept, Usable

LEMMA CodeRedeemedOnceKept ==
  ASSUME TypeOK, CodeRedeemedOnce, NEW th \in Thread, RequestSound(th), SerialSound(th),
         Frame(th), (\E label, l : Enters(th, label, l)) \/ Continue(th)
  PROVE  CodeRedeemedOnce'
<1>1. /\ \A u \in Thread : u # th => (Redeemed(u, "code")' <=> Redeemed(u, "code"))
      /\ Redeemed(th, "code")' => Redeemed(th, "code") \/ MarkCode(th)
  <2>1. "code" \in {"code", "device"} /\ "device" # "code"
    OBVIOUS
  <2>. QED BY <2>1, WhoRedeems
<1>2. MarkCode(th) => ~code_used /\ code_used'
  BY DEF MarkCode, SerialSound
<1>3. code_used => code_used'
  BY DEF Frame
<1>. QED BY <1>1, <1>2, <1>3 DEF CodeRedeemedOnce, RedeemedOnce

\* Requests that are not under way have nothing to say.
LEMMA IdleSound ==
  ASSUME NEW u \in Thread, ~InFlight(u)'
  PROVE  SerialSound(u)'
BY DEF InFlight, SerialSound, Putting, Minting, Scanning

LEMMA EnteredSerially ==
  ASSUME IndSound, Serially, NEW th \in Thread, NEW label, NEW l, Enters(th, label, l), ~overlapped'
  PROVE  Serially'
<1>0. TypeOK /\ \A u \in Thread : RequestSound(u)
  BY DEF IndSound, RequestsSound
<1>1. /\ TypeOK' /\ Frame(th) /\ NoneAdded
      /\ pc[th] = "idle" /\ pc'[th] = label /\ local'[th] = l
      /\ UNCHANGED <<code_used, device_present, refresh_tokens, access_tokens>>
      /\ \A u \in Thread : ~InFlight(u)
  BY <1>0, EnterStep
<1>2. Quiet(th)
  BY <1>1 DEF Enters, Quiet
<1>3. \A u \in Thread : u # th => ~InFlight(u)'
  BY <1>1 DEF Frame, InFlight
<1>4. OneAtATime'
  BY <1>3 DEF OneAtATime
<1>5. CodeRedeemedOnce'
  BY <1>0, <1>1, CodeRedeemedOnceKept DEF Serially
<1>6. OneUsable'
  BY <1>1, OneUsableKept DEF Serially, Usable
<1>7. FailsClosed'
  BY <1>1, <1>2, FailsClosedKept DEF Serially
<1>8. ~Killed(l.family, l.grant) \/ label = "begin_scan"
  <2>1. SUFFICES ASSUME Killed(l.family, l.grant), label # "begin_scan"
                 PROVE  FALSE
    OBVIOUS
  <2>2. PICK u \in Thread :
          /\ pc[u] = "done"
          /\ \/ local[u].kind = "reuse" /\ local[u].family = l.family
             \/ local[u].kind = "replay" /\ l.grant = "code"
    BY <2>1 DEF Killed
  <2>3. /\ local[u].kind = "reuse" => pc[local[u].family] = "done"
        /\ local[u].kind = "replay" => code_used
    BY <1>0 DEF RequestSound
  <2>4. CASE label = "mark_refresh"
    BY <2>1, <2>4 DEF Serially, FailsClosed, Enters, Usable
  <2>5. CASE label # "mark_refresh"
    BY <1>1, <2>1, <2>2, <2>3, <2>5 DEF Enters
  <2>. QED BY <2>4, <2>5
<1>9. <<"family", "access">> # <<"access">>
  OBVIOUS
<1>10. SerialSound(th)'
  <2>1. pc'[th] \in Minting => ~Killed(local[th].family, local[th].grant)'
    <3>1. label # "begin_scan" => ~Killed(l.family, l.grant)'
      BY <1>1, <1>2, <1>8, NothingKilled
    <3>. QED BY <1>1, <3>1 DEF Killed, Minting
  <2>2. pc'[th] \notin Putting /\ pc'[th] # "scan"
    BY <1>1 DEF Enters, Putting
  <2>3. pc'[th] = "mark_code" => ~code_used'
    BY <1>1 DEF Enters
  <2>4. pc'[th] = "mark_refresh" => Usable(local[th].token)'
    BY <1>1 DEF Enters, Usable
  <2>5. pc'[th] \in Scanning /\ local'[th].kind = "reuse" => local'[th].scans # <<"access">>
    BY <1>1, <1>9 DEF Enters, Scanning
  <2>. QED BY <2>1, <2>2, <2>3, <2>4, <2>5 DEF SerialSound
<1>11. \A u \in Thread : SerialSound(u)'
  BY <1>3, <1>10, IdleSound
<1>. QED BY <1>4, <1>5, <1>6, <1>7, <1>11 DEF Serially

LEMMA ContinuedSerially ==
  ASSUME IndSound, Serially, NEW th \in Thread, Continue(th)
  PROVE  Serially'
<1>0. TypeOK /\ RequestSound(th) /\ SerialSound(th) /\ OneUsable /\ FailsClosed /\ CodeRedeemedOnce
  BY DEF IndSound, RequestsSound, Serially
<1>1. TypeOK' /\ Frame(th) /\ SameRequest(th)
  BY <1>0, ContinueStep
<1>2. /\ pc \in [Thread -> Label] /\ local \in [Thread -> Local] /\ local[th] \in Local
      /\ Len(refresh_tokens) \in Nat /\ refresh_tokens \in Seq(Refresh)
  BY <1>0 DEF TypeOK
<1>3. \A u \in Thread : u # th => ~InFlight(u)'
  <2>1. \A u \in Thread : InFlight(u) => u = th
    BY <1>1 DEF SameRequest, Serially, OneAtATime
  <2>. QED BY <1>1, <2>1 DEF Frame, InFlight
<1>4. OneAtATime'
  BY <1>3 DEF OneAtATime
<1>5. CodeRedeemedOnce'
  BY <1>0, <1>1, CodeRedeemedOnceKept
<1>6. ASSUME SerialSound(th)', OneUsable', FailsClosed'
      PROVE  Serially'
  BY <1>3, <1>4, <1>5, <1>6, IdleSound DEF Serially
\* A step that neither touches a refresh token nor ends the request.
<1>7. ASSUME UNCHANGED refresh_tokens, pc'[th] # "done"
      PROVE  OneUsable' /\ FailsClosed'
  <2>1. NoneAdded /\ Quiet(th)
    BY <1>0, <1>7, NothingAdded DEF Quiet
  <2>2. OneUsable'
    BY <1>0, <1>7, <2>1, OneUsableKept DEF Usable
  <2>. QED BY <1>0, <1>1, <2>1, <2>2, FailsClosedKept
\* Nothing that a minting request had to fear has come up.
<1>8. ASSUME pc[th] \in Minting, pc'[th] # "done"
      PROVE  ~Killed(local[th].family, local[th].grant)'
  <2>1. SUFFICES ASSUME NEW f, NEW g, f = local[th].family, g = local[th].grant, Killed(f, g)'
                 PROVE  FALSE
    BY <1>1 DEF Killed, SameRequest
  <2>2. Killed(f, g)
    BY <1>1, <1>8, <2>1, NothingKilled DEF Quiet
  <2>. QED BY <1>0, <1>8, <2>1, <2>2 DEF SerialSound
<1>9. CASE MarkCode(th)
  <2>1. pc[th] = "mark_code" /\ pc'[th] = "put_access" /\ UNCHANGED <<local, refresh_tokens>>
    BY <1>2, <1>9 DEF MarkCode, Goto
  <2>2. local[th].kind = "code"
    BY <1>0, <2>1 DEF RequestSound
  <2>3. SerialSound(th)'
    BY <1>8, <2>1, <2>2 DEF SerialSound, Putting, Minting, Scanning
  <2>. QED BY <1>6, <1>7, <2>1, <2>3
<1>10. CASE MarkRefresh(th)
  <2>. DEFINE k == local[th].token
  <2>1. /\ pc[th] = "mark_refresh" /\ pc'[th] = "put_access" /\ UNCHANGED local
        /\ refresh_tokens' = [refresh_tokens EXCEPT ![k].used = TRUE]
    BY <1>2, <1>10 DEF MarkRefresh, Goto
  <2>2. k \in 1..Len(refresh_tokens) /\ refresh_tokens[k].family_id = local[th].family /\ Usable(k)
    BY <1>0, <2>1 DEF RequestSound, SerialSound
  <2>3. NoneAdded /\ \A j \in 1..Len(refresh_tokens) : Usable(j)' => Usable(j) /\ j # k
    BY <1>0, <2>1, <2>2, FlagSet
  <2>4. \A j \in 1..Len(refresh_tokens') : refresh_tokens'[j].family_id = local[th].family => ~Usable(j)'
    <3>1. \A j \in 1..Len(refresh_tokens) :
            refresh_tokens[j].family_id = local[th].family /\ Usable(j) => j = k
      BY <1>0, <2>2 DEF OneUsable, Usable
    <3>. QED BY <2>3, <3>1 DEF NoneAdded, TokensKept
  <2>5. SerialSound(th)'
    BY <1>8, <2>1, <2>4 DEF SerialSound, Putting, Minting, Scanning
  <2>6. OneUsable'
    BY <1>0, <2>3, OneUsableKept
  <2>7. FailsClosed'
    BY <1>0, <1>1, <2>1, <2>3, FailsClosedKept DEF Quiet
  <2>. QED BY <1>6, <2>5, <2>6, <2>7
<1>11. CASE DelDevice(th)
  <2>1. /\ pc[th] = "del_device" /\ pc'[th] \in {"put_access", "error"}
        /\ UNCHANGED <<local, refresh_tokens>>
    BY <1>2, <1>11 DEF DelDevice, Goto
  <2>2. local[th].kind = "device"
    BY <1>0, <2>1 DEF RequestSound
  <2>3. SerialSound(th)'
    BY <1>8, <2>1, <2>2 DEF SerialSound, Putting, Minting, Scanning
  <2>. QED BY <1>6, <1>7, <2>1, <2>3
<1>12. CASE PutAccess(th)
  <2>1. pc[th] = "put_access" /\ pc'[th] = "put_refresh" /\ UNCHANGED <<local, refresh_tokens>>
    BY <1>2, <1>12 DEF PutAccess, Goto
  <2>2. SerialSound(th)'
    BY <1>0, <1>8, <2>1 DEF SerialSound, Putting, Minting, Scanning, Usable
  <2>. QED BY <1>6, <1>7, <2>1, <2>2
<1>13. CASE AbortScan(th)
  <2>1. pc'[th] = "error" /\ UNCHANGED <<local, refresh_tokens>>
    BY <1>2, <1>13 DEF AbortScan, Goto
  <2>2. SerialSound(th)'
    BY <2>1 DEF SerialSound, Putting, Minting, Scanning
  <2>. QED BY <1>6, <1>7, <2>1, <2>2
<1>14. CASE BeginScan(th)
  <2>1. /\ pc[th] = "begin_scan" /\ pc'[th] = "scan" /\ UNCHANGED refresh_tokens
        /\ local'[th].pos = 1 /\ local'[th].scans = local[th].scans
    BY <1>2, <1>14 DEF BeginScan, Goto, Local
  <2>2. /\ local'[th].kind = local[th].kind /\ local'[th].family = local[th].family
    BY <1>1 DEF SameRequest
  <2>3. SerialSound(th)'
    BY <1>0, <2>1, <2>2 DEF SerialSound, Putting, Minting, Scanning, RevokedInFamily
  <2>. QED BY <1>6, <1>7, <2>1, <2>3
<1>15. CASE PutRefresh(th)
  <2>. DEFINE n == Len(refresh_tokens)
              t == [family_id |-> local[th].family, grant |-> local[th].grant, used |-> FALSE, revoked |-> FALSE]
  <2>1. /\ pc[th] = "put_refresh" /\ pc'[th] = "done" /\ UNCHANGED local
        /\ refresh_tokens' = Append(refresh_tokens, t)
    BY <1>2, <1>15 DEF PutRefresh, Goto
  <2>2. t \in Refresh /\ t.family_id = local[th].family /\ t.grant = local[th].grant
    BY <1>2 DEF Local, Refresh
  <2>. HIDE DEF t
  <2>3. /\ Len(refresh_tokens') = n + 1 /\ n \in Nat /\ refresh_tokens'[n + 1] = t
        /\ \A i \in 1..n : refresh_tokens'[i] = refresh_tokens[i]
    BY <1>2, <2>1, <2>2
  <2>4. /\ local[th].kind \in {"code", "device", "rotate"}
        /\ local[th].kind # "rotate" => local[th].family = th
    BY <1>0, <2>1 DEF RequestSound, Putting
  <2>5. Quiet(th)
    BY <2>1, <2>4 DEF Quiet
  <2>6. SerialSound(th)'
    BY <2>1 DEF SerialSound, Putting, Minting, Scanning
  <2>7. \A i \in 1..n : refresh_tokens[i].family_id = local[th].family => ~Usable(i)
    <3>1. CASE local[th].kind = "rotate"
      BY <1>0, <2>1, <3>1 DEF SerialSound, Putting
    <3>2. CASE local[th].kind # "rotate"
      BY <2>1, <2>4, <3>2 DEF IndSound, FamiliesFounded, Founded
    <3>. QED BY <3>1, <3>2
  <2>8. OneUsable'
    <3>1. SUFFICES ASSUME NEW i \in 1..(n + 1), NEW j \in 1..(n + 1),
                          refresh_tokens'[i].family_id = refresh_tokens'[j].family_id,
                          ~(refresh_tokens'[i].used \/ refresh_tokens'[i].revoked),
                          ~(refresh_tokens'[j].used \/ refresh_tokens'[j].revoked)
                   PROVE  i = j
      BY <2>3 DEF OneUsable
    <3>2. CASE i \in 1..n /\ j \in 1..n
      BY <1>0, <2>3, <3>1, <3>2 DEF OneUsable
    <3>3. CASE i = n + 1 /\ j \in 1..n
      BY <2>2, <2>3, <2>7, <3>1, <3>3 DEF Usable
    <3>4. CASE i \in 1..n /\ j = n + 1
      BY <2>2, <2>3, <2>7, <3>1, <3>4 DEF Usable
    <3>. QED BY <2>3, <3>2, <3>3, <3>4
  <2>9. FailsClosed'
    <3>1. SUFFICES ASSUME NEW i \in 1..(n + 1), NEW f, NEW g, f = refresh_tokens'[i].family_id,
                          g = refresh_tokens'[i].grant, Killed(f, g)'
                   PROVE  refresh_tokens'[i].revoked
      BY <2>3 DEF FailsClosed, Killed
    <3>2. Killed(f, g)
      BY <1>1, <2>5, <3>1, NothingKilled
    <3>3. CASE i \in 1..n
      BY <1>0, <2>3, <3>1, <3>2, <3>3 DEF FailsClosed
    <3>4. CASE i = n + 1
      <4>1. f = local[th].family /\ g = local[th].grant
        BY <2>2, <2>3, <3>1, <3>4
      <4>. QED BY <1>0, <2>1, <3>2, <4>1 DEF SerialSound, Minting
    <3>. QED BY <2>3, <3>3, <3>4
  <2>. QED BY <1>6, <2>6, <2>8, <2>9
<1>16. CASE ScanNext(th)
  <2>. DEFINE p == local[th].pos
  <2>1. /\ pc[th] = "scan" /\ pc'[th] = "scan" /\ local'[th].pos = p + 1 /\ p \in Nat
        /\ local'[th].scans = local[th].scans
        /\ local'[th].kind = local[th].kind /\ local'[th].family = local[th].family
    BY <1>2, <1>16 DEF ScanNext, Local
  <2>2. /\ NoneAdded
        /\ \A j \in 1..Len(refresh_tokens) : Usable(j)' => Usable(j)
        /\ /\ Head(local[th].scans) # "access"
           /\ Head(local[th].scans) = "refresh" \/ refresh_tokens[p].family_id = local[th].family
           => refresh_tokens'[p].revoked
    BY <1>0, <1>16, ScanEffect
  <2>3. OneUsable'
    BY <1>0, <2>2, OneUsableKept
  <2>4. FailsClosed'
    BY <1>0, <1>1, <2>1, <2>2, FailsClosedKept DEF Quiet
  <2>5. local[th].kind = "reuse" /\ local[th].scans = <<"access">> => RevokedInFamily(local[th].family)'
    BY <1>0, <2>1, <2>2 DEF SerialSound, Scanning, RevokedInFamily, NoneAdded, TokensKept
  <2>6. ASSUME Head(local[th].scans) # "access", NEW i \in 1..Len(refresh_tokens'), i < p + 1,
               Head(local[th].scans) = "refresh" \/ refresh_tokens'[i].family_id = local[th].family
        PROVE  refresh_tokens'[i].revoked
    <3>1. /\ i \in 1..Len(refresh_tokens) /\ refresh_tokens'[i].family_id = refresh_tokens[i].family_id
          /\ refresh_tokens[i].revoked => refresh_tokens'[i].revoked
      BY <2>2 DEF NoneAdded, TokensKept
    <3>2. CASE i < p
      BY <1>0, <2>1, <2>6, <3>1, <3>2 DEF SerialSound
    <3>3. CASE i = p
      BY <2>2, <2>6, <3>1, <3>3
    <3>. QED BY <1>2, <2>1, <2>6, <3>1, <3>2, <3>3
  <2>7. SerialSound(th)'
    BY <2>1, <2>5, <2>6 DEF SerialSound, Putting, Minting, Scanning, RevokedInFamily
  <2>. QED BY <1>6, <2>3, <2>4, <2>7
<1>17. CASE EndScan(th)
  <2>1. /\ pc[th] = "scan" /\ UNCHANGED refresh_tokens /\ local'[th].scans = Tail(local[th].scans)
        /\ local'[th].kind = local[th].kind /\ local'[th].family = local[th].family
        /\ pc'[th] = IF Len(local[th].scans) > 1 THEN "begin_scan" ELSE "done"
        /\ local[th].pos > local[th].size /\ Len(Scanned(th)) = local[th].size
    BY <1>2, <1>17 DEF EndScan, Goto, Local
  <2>2. NoneAdded
    BY <1>0, <2>1, NothingAdded
  <2>3. OneUsable'
    BY <1>0, <2>1, <2>2, OneUsableKept DEF Usable
  <2>4. /\ Head(<<"access", "refresh">>) = "access" /\ Tail(<<"access", "refresh">>) = <<"refresh">>
        /\ Head(<<"family", "access">>) = "family" /\ Tail(<<"family", "access">>) = <<"access">>
        /\ Head(<<"refresh">>) = "refresh" /\ Head(<<"access">>) = "access"
        /\ Len(<<"access", "refresh">>) = 2 /\ Len(<<"family", "access">>) = 2
        /\ <<"refresh">> # <<"access">> /\ "family" # "access" /\ "refresh" # "access"
    OBVIOUS
  <2>5. Head(local[th].scans) # "access" =>
          \A i \in 1..Len(refresh_tokens) :
            Head(local[th].scans) = "refresh" \/ refresh_tokens[i].family_id = local[th].family
            => refresh_tokens[i].revoked
    <3>1. SUFFICES ASSUME Head(local[th].scans) # "access", NEW i \in 1..Len(refresh_tokens)
                   PROVE  i < local[th].pos
      BY <1>0, <2>1 DEF SerialSound
    <3>2. local[th].size = Len(refresh_tokens) /\ local[th].pos \in Nat
      BY <1>2, <2>1, <3>1 DEF Scanned, Local
    <3>. QED BY <1>2, <2>1, <3>2
  <2>6. /\ local[th].kind = "reuse" => RevokedInFamily(local[th].family)
        /\ local[th].kind = "replay" /\ local[th].scans = <<"refresh">> =>
             \A i \in 1..Len(refresh_tokens) : refresh_tokens[i].revoked
    <3>1. CASE local[th].kind = "reuse" /\ local[th].scans = <<"family", "access">>
      BY <2>4, <2>5, <3>1 DEF RevokedInFamily
    <3>2. CASE local[th].kind = "reuse" /\ local[th].scans = <<"access">>
      BY <1>0, <2>1, <3>2 DEF SerialSound, Scanning
    <3>3. local[th].kind = "reuse" => local[th].scans \in {<<"family", "access">>, <<"access">>}
      BY <1>0, <2>1 DEF RequestSound, Scanning
    <3>4. CASE local[th].kind = "replay" /\ local[th].scans = <<"refresh">>
      BY <2>4, <2>5, <3>4
    <3>. QED BY <3>1, <3>2, <3>3, <3>4
  <2>7. SerialSound(th)'
    BY <2>1, <2>6 DEF SerialSound, Putting, Minting, Scanning, RevokedInFamily
  <2>8. FailsClosed'
    <3>1. CASE pc'[th] = "begin_scan"
      BY <1>0, <1>1, <2>2, <3>1, FailsClosedKept DEF Quiet
    <3>2. CASE pc'[th] = "done"
      <4>1. local[th].kind = "replay" => local[th].scans = <<"refresh">>
        <5>1. \A s : s = <<"access", "refresh">> => Len(s) > 1
          BY <2>4
        <5>2. local[th].scans # <<"access", "refresh">>
          BY <2>1, <3>2, <5>1
        <5>. QED BY <1>0, <2>1, <5>2 DEF RequestSound, Scanning
      <4>2. SUFFICES ASSUME NEW i \in 1..Len(refresh_tokens), NEW u \in Thread, pc'[u] = "done",
                            \/ local'[u].kind = "reuse" /\ local'[u].family = refresh_tokens[i].family_id
                            \/ local'[u].kind = "replay" /\ refresh_tokens[i].grant = "code"
                     PROVE  refresh_tokens[i].revoked
        BY <2>1 DEF FailsClosed, Killed
      <4>3. CASE u = th
        BY <2>1, <2>6, <4>1, <4>2, <4>3 DEF RevokedInFamily
      <4>4. CASE u # th
        BY <1>0, <1>1, <4>2, <4>4 DEF Frame, FailsClosed, Killed
      <4>. QED BY <4>3, <4>4
    <3>. QED BY <2>1, <3>1, <3>2
  <2>. QED BY <1>6, <2>3, <2>7, <2>8
<1>. QED
  BY <1>9, <1>10, <1>11, <1>12, <1>13, <1>14, <1>15, <1>16, <1>17 DEF Continue

----------------------------------------------------------------------------
(* The theorems.                                                           *)

LEMMA Initially == Init => IInv
<1>. SUFFICES ASSUME Init PROVE IInv
  OBVIOUS
<1>1. \A th \in Thread : /\ pc[th] = "idle" /\ local[th].kind = "none" /\ local[th].family = th
                         /\ local[th].grant = "code"
  BY DEF Init
<1>2. TypeOK
  <2>1. <<>> \in Seq({"access", "refresh", "family"}) /\ <<>> \in Seq(Refresh) /\ <<>> \in Seq(Access)
    OBVIOUS
  <2>2. \A th \in Thread : [kind |-> "none", token |-> 0, family |-> th, grant |-> "code",
                            scans |-> <<>>, pos |-> 0, size |-> 0] \in Local
    BY <2>1 DEF Local
  <2>3. local \in [Thread -> Local]
    BY <2>2 DEF Init
  <2>4. pc \in [Thread -> Label]
    BY DEF Init, Label
  <2>. QED BY <2>1, <2>3, <2>4, ThreadedAssumption DEF Init, TypeOK
<1>3. RequestsSound
  BY <1>1 DEF RequestsSound, RequestSound, Putting, Scanning
<1>4. Len(refresh_tokens) = 0
  BY DEF Init
<1>5. \A th \in Thread : ~InFlight(th) /\ \A g \in {"code", "device"} : ~Redeemed(th, g)
  BY <1>1 DEF InFlight, Redeemed, Putting
<1>6. IndSound
  BY <1>2, <1>3, <1>4, <1>5 DEF IndSound, FamiliesFounded, DeviceRedeemedOnce, RedeemedOnce
<1>7. \A th \in Thread : SerialSound(th)
  BY <1>1 DEF SerialSound, Putting, Minting, Scanning
<1>8. Serially
  BY <1>4, <1>5, <1>7 DEF Serially, OneAtATime, CodeRedeemedOnce, RedeemedOnce, OneUsable, FailsClosed
<1>. QED BY <1>6, <1>8 DEF IInv

LEMMA StepKeeps == IInv /\ [Next]_vars => IInv'
<1>. SUFFICES ASSUME IInv, [Next]_vars PROVE IInv'
  OBVIOUS
<1>1. ASSUME NEW th \in Thread, Request(th) \/ Continue(th) PROVE IInv'
  <2>0. TypeOK /\ RequestSound(th)
    BY DEF IInv, IndSound, RequestsSound
  <2>1. IndSound'
    BY <1>1, IndSoundKept DEF IInv
  <2>2. CASE Request(th)
    <3>1. PICK label, l : Enters(th, label, l)
      BY <2>0, <2>2, RequestEnters
    <3>2. ~overlapped' => ~overlapped
      BY <2>0, <3>1, EnterStep
    <3>. QED BY <2>1, <3>1, <3>2, EnteredSerially DEF IInv
  <2>3. CASE Continue(th)
    <3>1. overlapped' = overlapped
      BY <2>0, <2>3, ContinueStep DEF SameRequest
    <3>. QED BY <2>1, <2>3, <3>1, ContinuedSerially DEF IInv
  <2>. QED BY <1>1, <2>2, <2>3
<1>2. CASE UNCHANGED vars
  BY <1>2
  DEF vars, IInv, IndSound, TypeOK, RequestsSound, RequestSound, FamiliesFounded, Founded,
      DeviceRedeemedOnce, RedeemedOnce, Redeemed, Serially, OneAtATime, InFlight, CodeRedeemedOnce,
      SerialSound, Usable, Killed, RevokedInFamily, OneUsable, FailsClosed
<1>. QED BY <1>1, <1>2 DEF Next

\* Tokens for a grant that one request at most has redeemed belong to one family.
LEMMA OneFamily ==
  ASSUME TypeOK, FamiliesFounded, NEW g \in {"code", "device"}, RedeemedOnce(g)
  PROVE  SingleUse(g)
<1>1. \A i \in TokensOf(g) : refresh_tokens[i].family_id \in Thread
  <2>1. \A i \in 1..Len(refresh_tokens) : refresh_tokens[i] \in Refresh
    BY DEF TypeOK
  <2>. QED BY <2>1 DEF Refresh, TokensOf
<1>2. \A i \in TokensOf(g) : Redeemed(refresh_tokens[i].family_id, g)
  BY DEF FamiliesFounded, Founded, Redeemed, TokensOf
<1>. QED BY <1>1, <1>2 DEF RedeemedOnce, SingleUse

\* The fields of the requests and the tokens keep their types.
THEOREM TypeCorrect == Spec => []TypeOK
<1>1. IInv => TypeOK
  BY DEF IInv, IndSound
<1>. QED BY Initially, StepKeeps, <1>1, PTL DEF Spec

\* A device code yields one family of tokens however many requests present it at once.
THEOREM DeviceCodeOnce == Spec => []DeviceSingleUse
<1>1. IInv => DeviceSingleUse
  BY OneFamily DEF IInv, IndSound, DeviceRedeemedOnce, DeviceSingleUse
<1>. QED BY Initially, StepKeeps, <1>1, PTL DEF Spec

\* While requests come one after the other, a code is redeemed once, a family has one
\* usable refresh token, and a detected reuse or replay revokes all it concerns.
THEOREM SerialRequestsSafe == Spec => []SafeWhenSerial
<1>1. IInv => SafeWhenSerial
  BY OneFamily DEF IInv, IndSound, Serially, CodeRedeemedOnce, SafeWhenSerial, CodeSingleUse
<1>. QED BY Initially, StepKeeps, <1>1, PTL DEF Spec

----------------------------------------------------------------------------
(* Before the grant: assertions and DPoP proofs.                           *)

RequestsSpec == RequestsInit /\ [][RequestsNext]_requestVars

(* The proofs that requests carry *)
Proofs == {r.proof : r \in {r \in TokenRequest : r.proof # Absent}}

(* No request at this label has lost its proof. *)
ProofLabels == {"purge", "drop", "record proof"}

Shape ==
  /\ DOMAIN at = Requester /\ DOMAIN request = Requester
  /\ DOMAIN stale = Requester /\ DOMAIN mine = Requester /\ DOMAIN before = Requester
  /\ DOMAIN read_now = Requester /\ DOMAIN tested_at = Requester

Numbers ==
  /\ \A t \in Requester : read_now[t] \in Int /\ tested_at[t] \in Int
  /\ \A j \in DOMAIN seen_proofs : seen_proofs[j] \in Int
  /\ request_now \in Int

(* A thread that is under way serves a request, with a proof while verify() runs. *)
Serving ==
  \A t \in Requester :
    /\ at[t] # "idle" => request[t] \in TokenRequest
    /\ at[t] \in ProofLabels => request[t].proof # Absent

(* An entry of the cache outlives the freshness of its proof. *)
EntryCoversFreshness ==
  \A p \in Proofs : p.jti \in DOMAIN seen_proofs => seen_proofs[p.jti] >= p.iat + MaxAge

(* What a purge has collected belongs to proofs that are stale. *)
CollectedAreStale ==
  \A t \in Requester, p \in Proofs : p.jti \in stale[t] => request_now > p.iat + MaxAge

(* Recorded identifiers are known, or their proof is stale. *)
RecordedAreKnown ==
  /\ \A t \in Requester : \A j : <<"assertion", j>> \in mine[t] \cup ended => j \in seen_jtis
  /\ \A t \in Requester, p \in Proofs : <<"proof", p.jti>> \in mine[t] \cup ended =>
       p.jti \in DOMAIN seen_proofs \/ request_now > p.iat + MaxAge

(* A proof was fresh by the reading that tested it. *)
ReadFresh ==
  \A t \in Requester : at[t] \in ProofLabels \cup {"grant"} /\ request[t].proof # Absent =>
    /\ request[t].proof.iat - MaxAge <= read_now[t]
    /\ read_now[t] <= request[t].proof.iat + MaxAge

(* A request knows what was spent before it, and its own assertion is none of that. *)
AssertionNew ==
  \A t \in Requester : at[t] # "idle" =>
    /\ before[t] \subseteq ended
    /\ Clients[request[t].client].method = "private_key_jwt" =>
         ~SpentBefore(t, "assertion", request[t].assertion)

(* A proof spent before passed the jti test by a later reading only. *)
ProofNew ==
  \A t \in Requester : at[t] \in {"record proof", "grant"} =>
    (SpentBefore(t, "proof", request[t].proof) => read_now[t] < tested_at[t])

(* What a step of one thread leaves alone *)
Others(t) ==
  \A u \in Requester \ {t} :
    /\ at'[u] = at[u] /\ request'[u] = request[u] /\ stale'[u] = stale[u] /\ mine'[u] = mine[u]
    /\ before'[u] = before[u] /\ read_now'[u] = read_now[u] /\ tested_at'[u] = tested_at[u]

SameDomains ==
  /\ DOMAIN at' = Requester /\ DOMAIN request' = Requester
  /\ DOMAIN stale' = Requester /\ DOMAIN mine' = Requester /\ DOMAIN before' = Requester
  /\ DOMAIN read_now' = Requester /\ DOMAIN tested_at' = Requester

RequestsInv ==
  /\ Shape /\ Numbers /\ Serving /\ EntryCoversFreshness /\ CollectedAreStale /\ RecordedAreKnown
  /\ ReadFresh /\ AssertionNew /\ ProofNew

LEMMA RequestsInitially == RequestsInit => RequestsInv
  BY TokenRequestsAssumption
  DEF RequestsInit, RequestsInv, Shape, Numbers, Serving, EntryCoversFreshness, CollectedAreStale,
      RecordedAreKnown, ReadFresh, AssertionNew, ProofNew, ProofLabels, Proofs

LEMMA ProofTimes == MaxAge \in Nat /\ \A p \in Proofs : p.iat \in Int
  BY TokenRequestsAssumption DEF Proofs

LEMMA ProofOf == \A r \in TokenRequest : r.proof # Absent => r.proof \in Proofs
  BY DEF Proofs

LEMMA JtiNamesProof == \A p, q \in Proofs : p.jti = q.jti => p.iat = q.iat
  BY ProofJtiFresh DEF Proofs

(***************************************************************************)
(* The end of a request hands over what it has recorded and disturbs       *)
(* nothing else.                                                           *)
(***************************************************************************)
LEMMA AnswerKeeps ==
  ASSUME RequestsInv, NEW t \in Requester, Answer(t),
         UNCHANGED <<seen_jtis, seen_proofs, request_now>>
  PROVE  RequestsInv'
<1>1. /\ SameDomains /\ Others(t)
      /\ at'[t] = "idle" /\ stale'[t] = {} /\ mine'[t] = {}
      /\ read_now'[t] = 0 /\ tested_at'[t] = 0
      /\ ended' = ended \cup mine[t]
  BY DEF Answer, RequestsInv, Shape, SameDomains, Others
<1>2. Shape' /\ Serving' /\ EntryCoversFreshness' /\ CollectedAreStale' /\ ReadFresh'
  BY <1>1
  DEF RequestsInv, Shape, Serving, EntryCoversFreshness, CollectedAreStale, ReadFresh,
      SameDomains, ProofLabels, Others
<1>3. Numbers'
  BY <1>1 DEF RequestsInv, Numbers, Others
<1>4. RecordedAreKnown'
  BY <1>1 DEF RequestsInv, RecordedAreKnown, Others
<1>5. AssertionNew'
  BY <1>1 DEF RequestsInv, AssertionNew, SpentBefore, Others
<1>6. ProofNew'
  BY <1>1 DEF RequestsInv, ProofNew, SpentBefore, Others
<1>7. QED
  BY <1>2, <1>3, <1>4, <1>5, <1>6 DEF RequestsInv

(***************************************************************************)
(* An arriving request has recorded nothing yet, and its assertion is      *)
(* new.                                                                    *)
(***************************************************************************)
LEMMA ArriveKeeps ==
  ASSUME RequestsInv, NEW t \in Requester, NEW r \in TokenRequest, Arrive(t, r)
  PROVE  RequestsInv'
<1>1. /\ SameDomains /\ Others(t)
      /\ AssertionPasses(r) \/ Authenticated(r)
      /\ at'[t] \in {"note assertion", "authenticated"}
      /\ request'[t] = r /\ before'[t] = ended
      /\ UNCHANGED <<stale, mine, read_now, tested_at, ended, seen_jtis, seen_proofs, request_now>>
  BY DEF Arrive, Go, locals, shared, RequestsInv, Shape, SameDomains, Others
<1>2. /\ Shape' /\ Numbers' /\ EntryCoversFreshness' /\ CollectedAreStale'
      /\ RecordedAreKnown' /\ ProofNew'
  BY <1>1
  DEF RequestsInv, Shape, Numbers, EntryCoversFreshness, CollectedAreStale, RecordedAreKnown,
      ProofNew, SameDomains, Others, SpentBefore
<1>3. Serving'
  BY <1>1 DEF RequestsInv, Serving, ProofLabels, Others
<1>4. ReadFresh'
  BY <1>1 DEF RequestsInv, ReadFresh, ProofLabels, Others
<1>5. AssertionNew'
  BY <1>1
  DEF RequestsInv, AssertionNew, RecordedAreKnown, AssertionPasses, Authenticated, SpentBefore,
      Others
<1>6. QED
  BY <1>2, <1>3, <1>4, <1>5 DEF RequestsInv

(***************************************************************************)
(* A recorded assertion is known from now on.                              *)
(***************************************************************************)
LEMMA NoteAssertionKeeps ==
  ASSUME RequestsInv, NEW t \in Requester, NoteAssertion(t)
  PROVE  RequestsInv'
<1>1. /\ SameDomains /\ Others(t)
      /\ at[t] = "note assertion" /\ at'[t] = "authenticated"
      /\ mine'[t] = mine[t] \cup {<<"assertion", request[t].assertion.jti>>}
      /\ seen_jtis' = seen_jtis \cup {request[t].assertion.jti}
      /\ UNCHANGED <<request, stale, before, read_now, tested_at, ended, seen_proofs, request_now>>
  BY DEF NoteAssertion, Go, locals, shared, RequestsInv, Shape, SameDomains, Others
<1>2. /\ Shape' /\ Numbers' /\ Serving' /\ EntryCoversFreshness' /\ CollectedAreStale'
      /\ ReadFresh' /\ AssertionNew' /\ ProofNew'
  BY <1>1
  DEF RequestsInv, Shape, Numbers, Serving, EntryCoversFreshness, CollectedAreStale, ReadFresh,
      AssertionNew, ProofNew, SameDomains, Others, ProofLabels, SpentBefore
<1>3. RecordedAreKnown'
  <2>1. ASSUME NEW u \in Requester, NEW id, id \in mine'[u] \cup ended'
        PROVE  id \in mine[u] \cup ended \cup {<<"assertion", request[t].assertion.jti>>}
    BY <1>1, <2>1 DEF Others
  <2>2. ASSUME NEW u \in Requester, NEW j, <<"assertion", j>> \in mine'[u] \cup ended'
        PROVE  j \in seen_jtis'
    <3>1. CASE <<"assertion", j>> \in mine[u] \cup ended
      BY <1>1, <3>1 DEF RequestsInv, RecordedAreKnown
    <3>2. CASE <<"assertion", j>> = <<"assertion", request[t].assertion.jti>>
      BY <1>1, <3>2
    <3>3. QED BY <2>1, <2>2, <3>1, <3>2
  <2>3. \A u \in Requester, p \in Proofs : <<"proof", p.jti>> \in mine'[u] \cup ended'
                                           => <<"proof", p.jti>> \in mine[u] \cup ended
    BY <2>1
  <2>4. QED BY <1>1, <2>2, <2>3 DEF RequestsInv, RecordedAreKnown
<1>4. QED
  BY <1>2, <1>3 DEF RequestsInv

(***************************************************************************)
(* A request without a proof goes to its grant or ends.                    *)
(***************************************************************************)
LEMMA WithoutProofKeeps ==
  ASSUME RequestsInv, NEW t \in Requester, WithoutProof(t)
  PROVE  RequestsInv'
<1>1. CASE Answer(t)
  BY <1>1, AnswerKeeps DEF WithoutProof, shared
<1>2. CASE ~Answer(t)
  <2>1. /\ SameDomains /\ Others(t)
        /\ at[t] = "authenticated" /\ at'[t] = "grant"
        /\ request[t].proof = Absent
        /\ UNCHANGED <<request, stale, mine, before, read_now, tested_at, ended>>
        /\ UNCHANGED <<seen_jtis, seen_proofs, request_now>>
    BY <1>2 DEF WithoutProof, Go, locals, shared, RequestsInv, Shape, SameDomains, Others
  <2>2. /\ Shape' /\ Numbers' /\ Serving' /\ EntryCoversFreshness' /\ CollectedAreStale'
        /\ RecordedAreKnown' /\ ReadFresh' /\ AssertionNew' /\ ProofNew'
    BY <2>1
    DEF RequestsInv, Shape, Numbers, Serving, EntryCoversFreshness, CollectedAreStale,
        RecordedAreKnown, ReadFresh, AssertionNew, ProofNew, SameDomains, Others,
        ProofLabels, SpentBefore
  <2>3. QED
    BY <2>2 DEF RequestsInv
<1>3. QED BY <1>1, <1>2

(***************************************************************************)
(* The first reading of the clock finds the proof fresh.                   *)
(***************************************************************************)
LEMMA ReadProofKeeps ==
  ASSUME RequestsInv, NEW t \in Requester, ReadProof(t)
  PROVE  RequestsInv'
<1>1. CASE Answer(t)
  BY <1>1, AnswerKeeps DEF ReadProof, shared
<1>2. CASE ~Answer(t)
  <2>1. /\ SameDomains /\ Others(t)
        /\ at[t] = "authenticated" /\ at'[t] = "purge"
        /\ request[t].proof # Absent
        /\ request[t].proof.iat - MaxAge <= request_now
        /\ request_now <= request[t].proof.iat + MaxAge
        /\ read_now'[t] = request_now
        /\ UNCHANGED <<request, stale, mine, before, tested_at, ended, seen_jtis, seen_proofs, request_now>>
    BY <1>2, ProofTimes, ProofOf
    DEF ReadProof, Go, locals, shared, RequestsInv, Shape, Numbers, Serving, SameDomains, Others
  <2>2. /\ Shape' /\ Serving' /\ EntryCoversFreshness' /\ CollectedAreStale'
        /\ RecordedAreKnown' /\ AssertionNew' /\ ProofNew'
    BY <2>1
    DEF RequestsInv, Shape, Serving, EntryCoversFreshness, CollectedAreStale, RecordedAreKnown,
        AssertionNew, ProofNew, SameDomains, ProofLabels, Others, SpentBefore
  <2>3. Numbers'
    BY <2>1 DEF RequestsInv, Numbers, Others
  <2>4. ReadFresh'
    BY <2>1 DEF RequestsInv, ReadFresh, ProofLabels, Others
  <2>5. QED
    BY <2>2, <2>3, <2>4 DEF RequestsInv
<1>3. QED BY <1>1, <1>2

(***************************************************************************)
(* A purge collects keys of stale proofs only, for entries outlive         *)
(* freshness.                                                              *)
(***************************************************************************)
LEMMA CollectStaleKeeps ==
  ASSUME RequestsInv, NEW t \in Requester, CollectStale(t)
  PROVE  RequestsInv'
<1>1. /\ SameDomains /\ Others(t)
      /\ at[t] = "purge" /\ at'[t] = "drop"
      /\ stale'[t] = {j \in DOMAIN seen_proofs : seen_proofs[j] < request_now}
      /\ UNCHANGED <<request, mine, before, read_now, tested_at, ended, seen_jtis, seen_proofs, request_now>>
  BY DEF CollectStale, Go, locals, shared, RequestsInv, Shape, SameDomains, Others
<1>2. /\ Shape' /\ Numbers' /\ EntryCoversFreshness' /\ RecordedAreKnown'
      /\ ReadFresh' /\ AssertionNew' /\ ProofNew'
  BY <1>1
  DEF RequestsInv, Shape, Numbers, EntryCoversFreshness, RecordedAreKnown, ReadFresh,
      AssertionNew, ProofNew, SameDomains, Others, ProofLabels, SpentBefore
<1>3. Serving'
  <2>1. \A u \in Requester : at'[u] # "idle" => at[u] # "idle"
    BY <1>1 DEF Others
  <2>2. \A u \in Requester : at'[u] \in ProofLabels => at[u] \in ProofLabels
    BY <1>1 DEF Others, ProofLabels
  <2>3. QED BY <1>1, <2>1, <2>2 DEF RequestsInv, Serving
<1>4. CollectedAreStale'
  BY <1>1, ProofTimes DEF RequestsInv, CollectedAreStale, EntryCoversFreshness, Numbers, Others
<1>5. QED
  BY <1>2, <1>3, <1>4 DEF RequestsInv

(***************************************************************************)
(* A dropped key is the key of a stale proof, also when it was recorded    *)
(* anew after the purge collected it.                                      *)
(***************************************************************************)
LEMMA DropStaleKeeps ==
  ASSUME RequestsInv, NEW t \in Requester, NEW j \in stale[t], DropStale(t, j)
  PROVE  RequestsInv'
<1>1. CASE j \notin DOMAIN seen_proofs
  BY <1>1, AnswerKeeps DEF DropStale, shared
<1>2. CASE j \in DOMAIN seen_proofs
  <2>1. /\ SameDomains /\ Others(t)
        /\ stale'[t] = stale[t] \ {j}
        /\ seen_proofs' = [k \in DOMAIN seen_proofs \ {j} |-> seen_proofs[k]]
        /\ UNCHANGED <<at, request, mine, before, read_now, tested_at, ended, seen_jtis, request_now>>
    BY <1>2 DEF DropStale, Go, locals, shared, RequestsInv, Shape, SameDomains, Others
  <2>2. Shape' /\ Serving' /\ CollectedAreStale' /\ ReadFresh' /\ AssertionNew' /\ ProofNew'
    BY <2>1
    DEF RequestsInv, Shape, Serving, CollectedAreStale, ReadFresh, AssertionNew, ProofNew,
        SameDomains, ProofLabels, Others, SpentBefore
  <2>3. Numbers'
    BY <2>1 DEF RequestsInv, Numbers, Others
  <2>4. EntryCoversFreshness'
    BY <2>1 DEF RequestsInv, EntryCoversFreshness
  <2>5. RecordedAreKnown'
    BY <2>1 DEF RequestsInv, RecordedAreKnown, CollectedAreStale, Others
  <2>6. QED
    BY <2>2, <2>3, <2>4, <2>5 DEF RequestsInv
<1>3. QED BY <1>1, <1>2

(***************************************************************************)
(* A proof that was spent before passes the test only when its entry is    *)
(* gone: the clock has then passed its freshness and, with it, the first   *)
(* reading.                                                                *)
(***************************************************************************)
LEMMA TestProofKeeps ==
  ASSUME RequestsInv, NEW t \in Requester, TestProof(t)
  PROVE  RequestsInv'
<1>1. CASE Answer(t)
  BY <1>1, AnswerKeeps DEF TestProof, shared
<1>2. CASE ~Answer(t)
  <2>1. /\ SameDomains /\ Others(t)
        /\ at[t] = "drop" /\ at'[t] = "record proof"
        /\ request[t].proof.jti \notin DOMAIN seen_proofs
        /\ tested_at'[t] = request_now
        /\ UNCHANGED <<request, stale, mine, before, read_now, ended, seen_jtis, seen_proofs, request_now>>
    BY <1>2 DEF TestProof, Go, locals, shared, RequestsInv, Shape, SameDomains, Others
  <2>2. /\ Shape' /\ Serving' /\ EntryCoversFreshness' /\ CollectedAreStale'
        /\ RecordedAreKnown' /\ ReadFresh' /\ AssertionNew'
    BY <2>1
    DEF RequestsInv, Shape, Serving, EntryCoversFreshness, CollectedAreStale, RecordedAreKnown,
        ReadFresh, AssertionNew, SameDomains, ProofLabels, Others, SpentBefore
  <2>3. Numbers'
    BY <2>1 DEF RequestsInv, Numbers, Others
  <2>4. ProofNew'
    <3>1. request[t].proof \in Proofs /\ read_now[t] \in Int /\ request_now \in Int
      BY <2>1, ProofOf DEF RequestsInv, Serving, Numbers, ProofLabels
    <3>2. read_now[t] <= request[t].proof.iat + MaxAge
      BY <2>1 DEF RequestsInv, Serving, ReadFresh, ProofLabels
    <3>3. SpentBefore(t, "proof", request[t].proof) => request_now > request[t].proof.iat + MaxAge
      BY <2>1, <3>1 DEF RequestsInv, AssertionNew, RecordedAreKnown, SpentBefore
    <3>4. SpentBefore(t, "proof", request[t].proof) => read_now[t] < request_now
      BY <3>1, <3>2, <3>3, ProofTimes
    <3>5. QED BY <2>1, <3>4 DEF RequestsInv, ProofNew, SpentBefore, Others
  <2>5. QED
    BY <2>2, <2>3, <2>4 DEF RequestsInv
<1>3. QED BY <1>1, <1>2

(***************************************************************************)
(* Two windows from a reading at which the proof was fresh cover its       *)
(* freshness.                                                              *)
(***************************************************************************)
LEMMA RecordProofKeeps ==
  ASSUME RequestsInv, NEW t \in Requester, RecordProof(t)
  PROVE  RequestsInv'
<1>1. /\ SameDomains /\ Others(t)
      /\ at[t] = "record proof" /\ at'[t] = "grant"
      /\ mine'[t] = mine[t] \cup {<<"proof", request[t].proof.jti>>}
      /\ seen_proofs' = [k \in DOMAIN seen_proofs \cup {request[t].proof.jti} |->
                         IF k = request[t].proof.jti THEN read_now[t] + 2 * MaxAge
                         ELSE seen_proofs[k]]
      /\ UNCHANGED <<request, stale, before, read_now, tested_at, ended, seen_jtis, request_now>>
  BY DEF RecordProof, ProofExpiry, Go, locals, shared, RequestsInv, Shape, SameDomains, Others
<1>2. Shape' /\ Serving' /\ CollectedAreStale' /\ ReadFresh' /\ AssertionNew' /\ ProofNew'
  BY <1>1
  DEF RequestsInv, Shape, Serving, CollectedAreStale, ReadFresh, AssertionNew, ProofNew,
      SameDomains, ProofLabels, Others, SpentBefore
<1>3. Numbers'
  <2>1. read_now[t] + 2 * MaxAge \in Int
    BY ProofTimes DEF RequestsInv, Numbers
  <2>2. QED BY <1>1, <2>1 DEF RequestsInv, Numbers
<1>4. EntryCoversFreshness'
  <2>1. /\ request[t].proof \in Proofs
        /\ read_now[t] \in Int /\ read_now[t] >= request[t].proof.iat - MaxAge
    BY <1>1, ProofOf DEF RequestsInv, Serving, Numbers, ReadFresh, ProofLabels
  <2>2. \A p \in Proofs : p.jti = request[t].proof.jti => read_now[t] + 2 * MaxAge >= p.iat + MaxAge
    BY <2>1, ProofTimes, JtiNamesProof
  <2>3. QED BY <1>1, <2>2 DEF RequestsInv, EntryCoversFreshness
<1>5. RecordedAreKnown'
  <2>1. ASSUME NEW u \in Requester, NEW id, id \in mine'[u] \cup ended'
        PROVE  id \in mine[u] \cup ended \cup {<<"proof", request[t].proof.jti>>}
    BY <1>1, <2>1 DEF Others
  <2>2. \A u \in Requester : \A j : <<"assertion", j>> \in mine'[u] \cup ended'
                                 => <<"assertion", j>> \in mine[u] \cup ended
    BY <2>1
  <2>3. ASSUME NEW u \in Requester, NEW p \in Proofs, <<"proof", p.jti>> \in mine'[u] \cup ended'
        PROVE  p.jti \in DOMAIN seen_proofs' \/ request_now' > p.iat + MaxAge
    <3>1. CASE <<"proof", p.jti>> \in mine[u] \cup ended
      BY <1>1, <3>1 DEF RequestsInv, RecordedAreKnown
    <3>2. CASE <<"proof", p.jti>> = <<"proof", request[t].proof.jti>>
      BY <1>1, <3>2
    <3>3. QED BY <2>1, <2>3, <3>1, <3>2
  <2>4. QED BY <1>1, <2>2, <2>3 DEF RequestsInv, RecordedAreKnown
<1>6. QED
  BY <1>2, <1>3, <1>4, <1>5 DEF RequestsInv

(***************************************************************************)
(* Time only makes more proofs stale.                                      *)
(***************************************************************************)
LEMMA TickKeeps ==
  ASSUME RequestsInv, RequestTick
  PROVE  RequestsInv'
<1>1. /\ request_now' = request_now + 1 /\ request_now \in Int
      /\ UNCHANGED <<at, request, stale, mine, before, read_now, tested_at, ended, seen_jtis, seen_proofs>>
  BY DEF RequestTick, locals, RequestsInv, Numbers
<1>2. Shape' /\ Serving' /\ EntryCoversFreshness' /\ ReadFresh'
  BY <1>1
  DEF RequestsInv, Shape, Serving, EntryCoversFreshness, ReadFresh, ProofLabels
<1>3. Numbers'
  BY <1>1 DEF RequestsInv, Numbers
<1>4. AssertionNew'
  BY <1>1 DEF RequestsInv, AssertionNew, SpentBefore
<1>5. ProofNew'
  BY <1>1 DEF RequestsInv, ProofNew, SpentBefore
<1>6. CollectedAreStale'
  BY <1>1, ProofTimes DEF RequestsInv, CollectedAreStale
<1>7. RecordedAreKnown'
  BY <1>1, ProofTimes DEF RequestsInv, RecordedAreKnown
<1>8. QED
  BY <1>2, <1>3, <1>4, <1>5, <1>6, <1>7 DEF RequestsInv

LEMMA RequestsStepKeeps == RequestsInv /\ [RequestsNext]_requestVars => RequestsInv'
<1> SUFFICES ASSUME RequestsInv, [RequestsNext]_requestVars PROVE RequestsInv'
  OBVIOUS
<1>1. ASSUME NEW t \in Requester, NEW r \in TokenRequest, Arrive(t, r) PROVE RequestsInv'
  BY <1>1, ArriveKeeps
<1>2. ASSUME NEW t \in Requester, NoteAssertion(t) PROVE RequestsInv'
  BY <1>2, NoteAssertionKeeps
<1>3. ASSUME NEW t \in Requester, WithoutProof(t) PROVE RequestsInv'
  BY <1>3, WithoutProofKeeps
<1>4. ASSUME NEW t \in Requester, ReadProof(t) PROVE RequestsInv'
  BY <1>4, ReadProofKeeps
<1>5. ASSUME NEW t \in Requester, CollectStale(t) PROVE RequestsInv'
  BY <1>5, CollectStaleKeeps
<1>6. ASSUME NEW t \in Requester, CollectAborted(t) PROVE RequestsInv'
  BY <1>6, AnswerKeeps DEF CollectAborted, shared
<1>7. ASSUME NEW t \in Requester, NEW j \in stale[t], DropStale(t, j) PROVE RequestsInv'
  BY <1>7, DropStaleKeeps
<1>8. ASSUME NEW t \in Requester, TestProof(t) PROVE RequestsInv'
  BY <1>8, TestProofKeeps
<1>9. ASSUME NEW t \in Requester, RecordProof(t) PROVE RequestsInv'
  BY <1>9, RecordProofKeeps
<1>10. ASSUME NEW t \in Requester, Grant(t) PROVE RequestsInv'
  BY <1>10, AnswerKeeps DEF Grant, shared
<1>11. CASE RequestTick
  BY <1>11, TickKeeps
<1>12. CASE UNCHANGED requestVars
  BY <1>12 DEF requestVars, locals, shared, RequestsInv, Shape, Numbers, Serving, EntryCoversFreshness,
      CollectedAreStale, RecordedAreKnown, ReadFresh, AssertionNew, ProofNew, SpentBefore
<1>13. QED
  BY <1>1, <1>2, <1>3, <1>4, <1>5, <1>6, <1>7, <1>8, <1>9, <1>10, <1>11, <1>12 DEF RequestsNext

\* No request reaches its grant with a client assertion that an earlier request recorded,
\* and none with such a proof unless the clock moved between the two readings in verify():
\* token() on threads, authorization_server.py:318-400 and dpop.py:225-267.
THEOREM SpentStaysSpent == RequestsSpec => []SpentIsSpent
<1>1. RequestsInv => SpentIsSpent
  BY DEF RequestsInv, AssertionNew, ProofNew, SpentIsSpent
<1>2. QED BY RequestsInitially, RequestsStepKeeps, <1>1, PTL DEF RequestsSpec
=============================================================================
