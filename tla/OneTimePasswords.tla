-------------------------- MODULE OneTimePasswords --------------------------
(***************************************************************************)
(* The stateful second factors of authlab/mfa: TOTP.verify with its drift  *)
(* window and last_step, and RecoveryCodes.consume. Both are for one user. *)
(*                                                                         *)
(* A TOTP code is six digits of a MAC, so two time steps can have the same *)
(* code: Hotp is any function, and collisions inside the window are among  *)
(* the cases. Time is counted in steps; timecode() has divided by the      *)
(* period. Anybody may type any code at any time.                          *)
(***************************************************************************)
EXTENDS Integers, Sequences, FiniteSets

CONSTANTS
  Typed,          \* what can be typed
  Hotp,          \* the code of each step under the user's secret
  Recovery,      \* the recovery codes generate() returned, in order
  Window,        \* drift tolerated, in steps
  MaxStep        \* bound on the clock

TimeStep == 0..(MaxStep + Window)

ASSUME OneTimePasswordsAssumption ==
  /\ Window \in Nat
  /\ MaxStep \in Nat
  /\ Hotp \in [TimeStep -> Typed]
  /\ Recovery \in Seq(Typed)

VARIABLES
  current,       \* timecode(now)
  last_step,     \* TOTP.last_step; -1 for None
  used,          \* RecoveryCodes.used, a set of indices
  step_uses,     \* history: how often a step has let the user in
  spent          \* history: how often a recovery code has let the user in

otpVars == <<current, last_step, used, step_uses, spent>>

OtpInit ==
  /\ current = 0
  /\ last_step = -1
  /\ used = {}
  /\ step_uses = [s \in TimeStep |-> 0]
  /\ spent = [c \in Typed |-> 0]

----------------------------------------------------------------------------
(* totp_verify and TOTP.verify                                             *)

InWindow == {s \in (current - Window)..(current + Window) : s >= 0}

\* The steps whose code was typed; hotp_verify has no look-ahead here.
Matching(code) == {s \in InWindow : Hotp[s] = code}

\* The loop over the drift runs upwards and returns the first match.
FirstMatch(code) == CHOOSE s \in Matching(code) : \A t \in Matching(code) : s <= t

\* Mutant: only the very step that was used last is refused.
NotLast(s) == s # last_step

NotBurned(s) == s > last_step

TotpAccepts(code) ==
  /\ Matching(code) # {}
  /\ NotBurned(FirstMatch(code))

VerifyTotp(code) ==
  /\ TotpAccepts(code)
  /\ last_step' = FirstMatch(code)
  /\ step_uses' = [step_uses EXCEPT ![FirstMatch(code)] = @ + 1]
  /\ UNCHANGED <<current, used, spent>>

----------------------------------------------------------------------------
(* RecoveryCodes.consume                                                   *)

Slots(code) == {i \in DOMAIN Recovery : Recovery[i] = code}

\* The first unused slot that holds the code
Burn(code) ==
  used' = used \cup
    {CHOOSE i \in Slots(code) \ used : \A j \in Slots(code) \ used : i <= j}

Consume(code) ==
  /\ Slots(code) \ used # {}
  /\ Burn(code)
  /\ spent' = [spent EXCEPT ![code] = @ + 1]
  /\ UNCHANGED <<current, last_step, step_uses>>

NextStep ==
  /\ current < MaxStep
  /\ current' = current + 1
  /\ UNCHANGED <<last_step, used, step_uses, spent>>

OtpNext == NextStep \/ \E code \in Typed : VerifyTotp(code) \/ Consume(code)

----------------------------------------------------------------------------
(* Properties.                                                             *)

\* "refuse anything at or below it": once a step was used, neither it nor an earlier one
\* lets anybody in, although its code may still be inside the window or be the code of
\* another step, too. "consumed on success, never reusable": a recovery code lets the user
\* in as often as slots of it are burned, so exactly as often as it was handed out.
FactorsSpentByUse ==
  [][/\ \A s, t \in TimeStep : step_uses'[s] > step_uses[s] /\ step_uses[t] > 0 => t < s
     /\ \A c \in Typed : spent'[c] = Cardinality(Slots(c) \cap used')]_otpVars
============================================================================
