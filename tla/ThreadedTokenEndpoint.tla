----------------------- MODULE ThreadedTokenEndpoint -----------------------
(***************************************************************************)
(* authlab/server.py serves /token and /revoke from a ThreadingHTTPServer: *)
(* every request runs on a thread of its own and calls into one            *)
(* AuthorizationServer, which takes no lock. This module splits the grants *)
(* of authorization_server.py at their accesses to shared records; what a  *)
(* thread does between two of them touches no shared state.                *)
(*                                                                         *)
(* There is one client, one user, one code and one approved device code,   *)
(* so a scan by client and user selects every token. The token             *)
(* dictionaries only grow, and Python keeps them in insertion order: they  *)
(* are sequences. An iterator raises RuntimeError when its dictionary has  *)
(* changed size, which kills the request: do_POST catches OAuthError only. *)
(***************************************************************************)
EXTENDS Naturals, Sequences

CONSTANTS
  Thread,          \* one per request, in any order; the bound on requests
  DeviceGranted    \* is there an approved device code?

ASSUME ThreadedAssumption == DeviceGranted \in BOOLEAN

VARIABLES
  pc,              \* where each request is
  local,           \* its local variables
  code_used,       \* code.used
  device_present,  \* the device code is in Store.device_codes
  refresh_tokens,
  access_tokens,
  overlapped       \* history: two requests were in flight at the same time

vars == <<pc, local, code_used, device_present, refresh_tokens, access_tokens, overlapped>>

Label == {"idle", "mark_code", "mark_refresh", "del_device", "put_access", "put_refresh",
          "begin_scan", "scan", "done", "error"}

\* A family is named by the request that opened it.
Refresh == [family_id : Thread, grant : {"code", "device"}, used : BOOLEAN, revoked : BOOLEAN]
Access == [family : Thread, grant : {"code", "device"}, revoked : BOOLEAN]

\* kind    what the request turned out to be
\* token   the index of the refresh token it presented
\* family  the family that it mints into or scans
\* scans   the loops it still has to run; pos and size are the iterator's
Local == [kind : {"none", "code", "device", "rotate", "replay", "reuse", "revoke"}, token : Nat,
          family : Thread, grant : {"code", "device"}, scans : Seq({"access", "refresh", "family"}),
          pos : Nat, size : Nat]

TypeOK ==
  /\ pc \in [Thread -> Label]
  /\ local \in [Thread -> Local]
  /\ code_used \in BOOLEAN
  /\ device_present \in BOOLEAN
  /\ refresh_tokens \in Seq(Refresh)
  /\ access_tokens \in Seq(Access)
  /\ overlapped \in BOOLEAN

Init ==
  /\ pc = [th \in Thread |-> "idle"]
  /\ local = [th \in Thread |-> [kind |-> "none", token |-> 0, family |-> th, grant |-> "code",
                                 scans |-> <<>>, pos |-> 0, size |-> 0]]
  /\ code_used = FALSE
  /\ device_present = DeviceGranted
  /\ refresh_tokens = <<>>
  /\ access_tokens = <<>>
  /\ overlapped = FALSE

----------------------------------------------------------------------------
(* Entering a handler. The checks that follow the first read (client,      *)
(* expiry, redirect_uri, PKCE, scope) pass, and read nothing that changes. *)

InFlight(th) == pc[th] \notin {"idle", "done", "error"}

Goto(th, label) == pc' = [pc EXCEPT ![th] = label]

\* ThreadingHTTPServer starts a thread for the request.
Enter(th, label, changes) ==
  /\ pc[th] = "idle"
  /\ Goto(th, label)
  /\ local' = [local EXCEPT ![th] = changes]
  /\ overlapped' = (overlapped \/ \E other \in Thread : InFlight(other))
  /\ UNCHANGED <<code_used, device_present, refresh_tokens, access_tokens>>

\* _grant_authorization_code up to "if code.used"
CheckCode(th) ==
  LET fresh == [local[th] EXCEPT !.kind = "code", !.grant = "code"]
      again == [local[th] EXCEPT !.kind = "replay", !.scans = <<"access", "refresh">>]
  IN  IF code_used THEN Enter(th, "begin_scan", again) ELSE Enter(th, "mark_code", fresh)

\* _grant_refresh_token up to "if token.used or token.revoked"
CheckRefresh(th, i) ==
  LET token == refresh_tokens[i]
      mine  == [local[th] EXCEPT !.token = i, !.family = token.family_id, !.grant = token.grant]
      fresh == [mine EXCEPT !.kind = "rotate"]
      again == [mine EXCEPT !.kind = "reuse", !.scans = <<"family", "access">>]
  IN  IF token.used \/ token.revoked
      THEN Enter(th, "begin_scan", again) ELSE Enter(th, "mark_refresh", fresh)

\* _grant_device_code up to its "del"
CheckDevice(th) ==
  /\ device_present
  /\ Enter(th, "del_device", [local[th] EXCEPT !.kind = "device", !.grant = "device"])

\* revoke() of a refresh token
CheckRevoke(th, i) ==
  Enter(th, "begin_scan",
        [local[th] EXCEPT !.kind = "revoke", !.family = refresh_tokens[i].family_id,
                          !.scans = <<"family">>])

----------------------------------------------------------------------------
(* Spending the credential.                                                *)

\* Mutant: the assignment is missing.
MarkCodeSkipped(th) ==
  /\ pc[th] = "mark_code"
  /\ Goto(th, "put_access")
  /\ UNCHANGED <<local, code_used, device_present, refresh_tokens, access_tokens, overlapped>>

\* code.used = True
MarkCode(th) ==
  /\ pc[th] = "mark_code"
  /\ code_used' = TRUE
  /\ Goto(th, "put_access")
  /\ UNCHANGED <<local, device_present, refresh_tokens, access_tokens, overlapped>>

\* token.used = True
MarkRefresh(th) ==
  /\ pc[th] = "mark_refresh"
  /\ refresh_tokens' = [refresh_tokens EXCEPT ![local[th].token].used = TRUE]
  /\ Goto(th, "put_access")
  /\ UNCHANGED <<local, code_used, device_present, access_tokens, overlapped>>

\* Mutant: device_codes.pop(value, None), which does not raise.
PopDevice(th) ==
  /\ pc[th] = "del_device"
  /\ device_present' = FALSE
  /\ Goto(th, "put_access")
  /\ UNCHANGED <<local, code_used, refresh_tokens, access_tokens, overlapped>>

\* Mutant: a blocking take, which waits for a device code that will not come back.
DelDeviceWaits(th) ==
  /\ pc[th] = "del_device"
  /\ device_present
  /\ device_present' = FALSE
  /\ Goto(th, "put_access")
  /\ UNCHANGED <<local, code_used, refresh_tokens, access_tokens, overlapped>>

\* del store.device_codes[value]: raises KeyError when the key is gone.
DelDevice(th) ==
  /\ pc[th] = "del_device"
  /\ device_present' = FALSE
  /\ Goto(th, IF device_present THEN "put_access" ELSE "error")
  /\ UNCHANGED <<local, code_used, refresh_tokens, access_tokens, overlapped>>

----------------------------------------------------------------------------
(* _issue_token_set: sign, store the access token, store the refresh token *)

PutAccess(th) ==
  /\ pc[th] = "put_access"
  /\ access_tokens' = Append(access_tokens,
       [family |-> local[th].family, grant |-> local[th].grant, revoked |-> FALSE])
  /\ Goto(th, "put_refresh")
  /\ UNCHANGED <<local, code_used, device_present, refresh_tokens, overlapped>>

PutRefresh(th) ==
  /\ pc[th] = "put_refresh"
  /\ refresh_tokens' = Append(refresh_tokens,
       [family_id |-> local[th].family, grant |-> local[th].grant, used |-> FALSE, revoked |-> FALSE])
  /\ Goto(th, "done")
  /\ UNCHANGED <<local, code_used, device_present, access_tokens, overlapped>>

----------------------------------------------------------------------------
(* The revocation loops.                                                   *)

Scanned(th) == IF Head(local[th].scans) = "access" THEN access_tokens ELSE refresh_tokens

\* "for token in ....values()" creates an iterator, which notes the size.
BeginScan(th) ==
  /\ pc[th] = "begin_scan"
  /\ local' = [local EXCEPT ![th].pos = 1, ![th].size = Len(Scanned(th))]
  /\ Goto(th, "scan")
  /\ UNCHANGED <<code_used, device_present, refresh_tokens, access_tokens, overlapped>>

RevokeOne(th) ==
  LET i     == local[th].pos
      scan  == Head(local[th].scans)
      found == scan = "refresh" \/ refresh_tokens[i].family_id = local[th].family
  IN  \/ /\ scan = "access"
         /\ access_tokens' = [access_tokens EXCEPT ![i].revoked = TRUE]
         /\ UNCHANGED refresh_tokens
      \/ /\ scan # "access" /\ found
         /\ refresh_tokens' = [refresh_tokens EXCEPT ![i].revoked = TRUE]
         /\ UNCHANGED access_tokens
      \/ scan # "access" /\ ~found /\ UNCHANGED <<refresh_tokens, access_tokens>>

\* One call of the iterator and one turn of the loop.
ScanNext(th) ==
  /\ pc[th] = "scan"
  /\ Len(Scanned(th)) = local[th].size
  /\ local[th].pos <= local[th].size
  /\ RevokeOne(th)
  /\ local' = [local EXCEPT ![th].pos = @ + 1]
  /\ UNCHANGED <<pc, code_used, device_present, overlapped>>

\* The loop is over; the next one begins, or the error response is sent.
EndScan(th) ==
  /\ pc[th] = "scan"
  /\ Len(Scanned(th)) = local[th].size
  /\ local[th].pos > local[th].size
  /\ local' = [local EXCEPT ![th].scans = Tail(@)]
  /\ Goto(th, IF Len(local[th].scans) > 1 THEN "begin_scan" ELSE "done")
  /\ UNCHANGED <<code_used, device_present, refresh_tokens, access_tokens, overlapped>>

\* RuntimeError: dictionary changed size during iteration
AbortScan(th) ==
  /\ pc[th] = "scan"
  /\ Len(Scanned(th)) # local[th].size
  /\ Goto(th, "error")
  /\ UNCHANGED <<local, code_used, device_present, refresh_tokens, access_tokens, overlapped>>

----------------------------------------------------------------------------

Request(th) ==
  \/ CheckCode(th)
  \/ CheckDevice(th)
  \/ \E i \in 1..Len(refresh_tokens) : CheckRefresh(th, i) \/ CheckRevoke(th, i)

Continue(th) ==
  \/ MarkCode(th)
  \/ MarkRefresh(th)
  \/ DelDevice(th)
  \/ PutAccess(th)
  \/ PutRefresh(th)
  \/ BeginScan(th)
  \/ ScanNext(th)
  \/ EndScan(th)
  \/ AbortScan(th)

Next == \E th \in Thread : Request(th) \/ Continue(th)

\* The interpreter switches between runnable threads for ever, so a request
\* that has begun keeps running; clients need not send any.
Spec == Init /\ [][Next]_vars /\ \A th \in Thread : WF_vars(Continue(th))

----------------------------------------------------------------------------
(* Properties.                                                             *)

TokensOf(grant) == {i \in 1..Len(refresh_tokens) : refresh_tokens[i].grant = grant}

SingleUse(grant) ==
  \A i, j \in TokensOf(grant) : refresh_tokens[i].family_id = refresh_tokens[j].family_id

\* "A code is single use": all tokens of a code belong to one family.
CodeSingleUse == SingleUse("code")

\* A device code yields one family although its handler takes no lock: "del" is
\* atomic, and the request that comes second dies of KeyError.
DeviceSingleUse == SingleUse("device")

OneUsable ==
  \A i, j \in 1..Len(refresh_tokens) :
    LET t == refresh_tokens[i]
        u == refresh_tokens[j]
    IN  t.family_id = u.family_id /\ ~(t.used \/ t.revoked) /\ ~(u.used \/ u.revoked) => i = j

\* Has a request that detected reuse in the family, or a replay of the code
\* behind it, ended with the error response?
Killed(family, grant) ==
  \E th \in Thread :
    /\ pc[th] = "done"
    /\ \/ local[th].kind = "reuse" /\ local[th].family = family
       \/ local[th].kind = "replay" /\ grant = "code"

\* "Kill the whole family": once a request has reported a reuse or a replay, the
\* refresh tokens concerned are revoked.
FailsClosed ==
  \A i \in 1..Len(refresh_tokens) :
    Killed(refresh_tokens[i].family_id, refresh_tokens[i].grant) => refresh_tokens[i].revoked

\* As long as requests do not overlap, the unlocked handlers keep all promises.
SafeWhenSerial == ~overlapped => CodeSingleUse /\ OneUsable /\ FailsClosed

\* Every request that is accepted comes to an end, with or without a response:
\* no loop chases tokens that other threads keep adding.
EveryRequestEnds == \A th \in Thread : InFlight(th) ~> pc[th] \in {"done", "error"}
============================================================================
