------------------------------ MODULE Assertion -------------------------------
(***************************************************************************)
(* auth/keypair.go: the device signs an assertion against its own clock,   *)
(* the server verifies it against its own.  An assertion may be delayed    *)
(* and sent again.                                                         *)
(*                                                                         *)
(* Time is in ticks, PerSecond to the second, because time.Time has        *)
(* fractions and the claims iat and exp do not.  Keys and signatures are   *)
(* reduced to whether the text arrives as it was signed.                   *)
(***************************************************************************)
EXTENDS Integers

CONSTANTS
  AssertionTTL, MaxClockSkew,   \* in seconds
  PerSecond,
  Offsets,      \* bound: device clock minus server clock, in ticks
  Audiences,    \* URLs of the server endpoints
  Start, MaxNow \* bounds: the server's clock, in ticks since the epoch

ASSUME AssertionAssumption ==
  /\ PerSecond \in Nat \ {0} /\ AssertionTTL \in Nat /\ MaxClockSkew \in Nat
  /\ Offsets \subseteq Int /\ Start \in Nat /\ MaxNow \in Nat

None == -1

VARIABLES
  now,          \* the server's clock
  offset,       \* device clock minus server clock
  aud, iat, exp,        \* the claims of the last assertion; iat is None before
  signedAt, signedOff,  \* auxiliary: now and offset when it was signed
  firstOk, lastOk       \* auxiliary: when it was first and last accepted

claims  == <<aud, iat, exp>>
history == <<signedAt, signedOff, firstOk, lastOk>>
vars    == <<now, offset, claims, history>>

Seconds(t) == t \div PerSecond     \* time.Time.Unix

DeviceNow == now + offset

SignAssertion(a) ==
  /\ DeviceNow >= 0
  /\ aud' = a
  /\ iat' = Seconds(DeviceNow)
  /\ exp' = Seconds(DeviceNow + AssertionTTL * PerSecond)
  /\ signedAt' = now
  /\ signedOff' = offset
  /\ firstOk' = None
  /\ lastOk' = None
  /\ UNCHANGED <<now, offset>>

Expired == exp <= 0 \/ exp * PerSecond < now

FutureNoLeeway == iat > 0 /\ iat * PerSecond > now    \* fault: exact clocks assumed

FutureUnchecked == FALSE                              \* fault: iat is not looked at

Future == iat > 0 /\ iat * PerSecond > now + MaxClockSkew * PerSecond

Accepts(allowedAudience, intact) ==
  intact /\ aud = allowedAudience /\ ~Expired /\ ~Future

VerifyAssertion(allowedAudience, intact) ==
  /\ iat # None
  /\ IF Accepts(allowedAudience, intact)
     THEN /\ firstOk' = IF firstOk = None THEN now ELSE firstOk
          /\ lastOk' = now
     ELSE UNCHANGED <<firstOk, lastOk>>
  /\ UNCHANGED <<now, offset, claims, signedAt, signedOff>>

Tick ==
  /\ now < MaxNow
  /\ now' = now + 1
  /\ UNCHANGED <<offset, claims, history>>

SetClock ==                        \* the device's clock is adjusted
  /\ offset' \in Offsets \ {offset}
  /\ UNCHANGED <<now, claims, history>>

Init ==
  /\ now = Start
  /\ offset \in Offsets
  /\ aud \in Audiences /\ iat = None /\ exp = None
  /\ signedAt = None /\ signedOff = 0 /\ firstOk = None /\ lastOk = None

Next ==
  \/ Tick \/ SetClock
  \/ \E a \in Audiences : SignAssertion(a)
  \/ \E a \in Audiences, intact \in BOOLEAN : VerifyAssertion(a, intact)

Spec == Init /\ [][Next]_vars

-------------------------------------------------------------------------------
(* Properties *)

SkewTolerated ==
  signedOff >= -MaxClockSkew * PerSecond /\ signedOff <= MaxClockSkew * PerSecond

(* "Loose enough that a laptop with a slightly fast clock still works": an *)
(* assertion of a device within MaxClockSkew of the server, fast or slow,  *)
(* is accepted until the skew and the truncated second have used up its    *)
(* lifetime.                                                               *)
FreshAccepted ==
  iat # None /\ SkewTolerated
      /\ now - signedAt <= (AssertionTTL - MaxClockSkew - 1) * PerSecond
    => Accepts(aud, TRUE)

(* However wrong the device's clock is, and however often an assertion is  *)
(* sent again, the times at which it is accepted lie within its lifetime   *)
(* and the leeway.                                                         *)
WindowBounded ==
  firstOk # None => lastOk - firstOk <= (AssertionTTL + MaxClockSkew) * PerSecond

===============================================================================
