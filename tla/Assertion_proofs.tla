--------------------------- MODULE Assertion_proofs ----------------------------
(***************************************************************************)
(* Proofs about Assertion, for any lifetime, leeway, resolution of the     *)
(* clock and size of its errors.                                           *)
(***************************************************************************)
EXTENDS Assertion, TLAPS

(* A whole number of seconds, in ticks.                                    *)
Ticks(s) == s * PerSecond

(* The claims stand for the device's clock at the time of signing, less    *)
(* the fraction of a second that Unix() drops.                             *)
Signed ==
  /\ iat \in Nat
  /\ exp = iat + AssertionTTL
  /\ signedAt \in Nat /\ signedOff \in Int
  /\ signedAt <= now
  /\ Ticks(iat) <= signedAt + signedOff
  /\ signedAt + signedOff < Ticks(iat) + PerSecond

(* The claims alone, not the clock that made them, bound the acceptances.  *)
Bounded ==
  firstOk # None =>
    /\ iat # None
    /\ firstOk \in Int /\ lastOk \in Int
    /\ Ticks(iat) - Ticks(MaxClockSkew) <= firstOk
    /\ lastOk <= Ticks(iat) + Ticks(AssertionTTL)

IInv ==
  /\ now \in Nat /\ offset \in Int
  /\ iat # None => Signed
  /\ Bounded

-------------------------------------------------------------------------------
(* Whole seconds *)

LEMMA TicksInt == ASSUME NEW s \in Int PROVE Ticks(s) \in Int
  BY AssertionAssumption DEF Ticks

LEMMA TicksNat == ASSUME NEW s \in Nat PROVE Ticks(s) \in Nat
  BY AssertionAssumption DEF Ticks

LEMMA TicksAdd ==
  ASSUME NEW r \in Int, NEW s \in Int
  PROVE  Ticks(r + s) = Ticks(r) + Ticks(s)
  BY AssertionAssumption DEF Ticks

(* What time.Time.Unix drops is less than a second.                        *)
LEMMA SecondsBound ==
  ASSUME NEW t \in Nat
  PROVE  /\ Seconds(t) \in Nat
         /\ Ticks(Seconds(t)) <= t
         /\ t < Ticks(Seconds(t)) + PerSecond
  BY AssertionAssumption DEF Seconds, Ticks

(* A number of seconds is determined by the ticks it bounds.               *)
LEMMA SecondsUnique ==
  ASSUME NEW t \in Nat, NEW s \in Nat, Ticks(s) <= t, t < Ticks(s) + PerSecond
  PROVE  Seconds(t) = s
  BY AssertionAssumption DEF Seconds, Ticks

(* So adding the lifetime and dropping the fraction commute.               *)
LEMMA SecondsAdd ==
  ASSUME NEW t \in Nat
  PROVE  Seconds(t + AssertionTTL * PerSecond) = Seconds(t) + AssertionTTL
<1> DEFINE u == t + Ticks(AssertionTTL)
           s == Seconds(t) + AssertionTTL
<1>1. /\ Seconds(t) \in Nat
      /\ Ticks(Seconds(t)) <= t
      /\ t < Ticks(Seconds(t)) + PerSecond
  BY SecondsBound
<1>2. AssertionTTL \in Nat /\ PerSecond \in Nat
  BY AssertionAssumption
<1>3. Ticks(AssertionTTL) \in Nat /\ Ticks(Seconds(t)) \in Nat
  BY <1>1, <1>2, TicksNat
<1>4. Ticks(s) = Ticks(Seconds(t)) + Ticks(AssertionTTL)
  BY <1>1, <1>2, TicksAdd
<1>5. u \in Nat /\ s \in Nat /\ Ticks(s) <= u /\ u < Ticks(s) + PerSecond
  BY <1>1, <1>2, <1>3, <1>4
<1> HIDE DEF u, s
<1>6. Seconds(u) = s
  BY <1>5, SecondsUnique
<1>7. QED
  BY <1>6 DEF u, s, Ticks

-------------------------------------------------------------------------------
(* The invariant *)

LEMMA InitIInv == Init => IInv
  BY AssertionAssumption DEF Init, IInv, Bounded

LEMMA SignAssertionStep ==
  ASSUME IInv, NEW a \in Audiences, SignAssertion(a)
  PROVE  IInv'
<1>1. DeviceNow \in Nat
  BY DEF SignAssertion, DeviceNow, IInv
<1>2. /\ Seconds(DeviceNow) \in Nat
      /\ Ticks(Seconds(DeviceNow)) <= DeviceNow
      /\ DeviceNow < Ticks(Seconds(DeviceNow)) + PerSecond
  BY <1>1, SecondsBound
<1>3. exp' = iat' + AssertionTTL
  BY <1>1, SecondsAdd DEF SignAssertion
<1>4. Signed'
  BY <1>2, <1>3 DEF SignAssertion, Signed, DeviceNow, IInv, Ticks
<1>5. firstOk' = None
  BY DEF SignAssertion
<1>6. QED
  BY <1>4, <1>5 DEF SignAssertion, IInv, Bounded

(* An accepted assertion is neither expired nor from the future.           *)
LEMMA AcceptedInWindow ==
  ASSUME IInv, iat # None, NEW a \in Audiences, NEW intact \in BOOLEAN, Accepts(a, intact)
  PROVE  /\ Ticks(iat) - Ticks(MaxClockSkew) <= now
         /\ now <= Ticks(iat) + Ticks(AssertionTTL)
<1>1. iat \in Nat /\ now \in Nat /\ exp = iat + AssertionTTL
  BY DEF IInv, Signed
<1>2. AssertionTTL \in Nat /\ MaxClockSkew \in Nat /\ PerSecond \in Nat
  BY AssertionAssumption
<1>3. Ticks(iat) \in Nat /\ Ticks(AssertionTTL) \in Nat /\ Ticks(MaxClockSkew) \in Nat
  BY <1>1, <1>2, TicksNat
<1>4. Ticks(exp) = Ticks(iat) + Ticks(AssertionTTL)
  BY <1>1, <1>2, TicksAdd
<1>5. ~(Ticks(exp) < now)
  BY DEF Accepts, Expired, Ticks
<1>6. ~(iat > 0 /\ Ticks(iat) > now + Ticks(MaxClockSkew))
  BY DEF Accepts, Future, Ticks
<1>7. Ticks(0) = 0
  BY <1>2 DEF Ticks
<1>8. CASE iat = 0
  BY <1>1, <1>3, <1>4, <1>5, <1>7, <1>8
<1>9. CASE iat > 0
  BY <1>1, <1>3, <1>4, <1>5, <1>6, <1>9
<1>10. QED
  BY <1>1, <1>8, <1>9

LEMMA VerifyAssertionStep ==
  ASSUME IInv, NEW a \in Audiences, NEW intact \in BOOLEAN, VerifyAssertion(a, intact)
  PROVE  IInv'
<1>1. UNCHANGED <<now, offset, aud, iat, exp, signedAt, signedOff>> /\ iat # None
  BY DEF VerifyAssertion, claims
<1>2. now \in Nat /\ None \notin Nat
  BY DEF IInv, None
<1>3. CASE Accepts(a, intact)
  <2>1. /\ Ticks(iat) - Ticks(MaxClockSkew) <= now
        /\ now <= Ticks(iat) + Ticks(AssertionTTL)
    BY <1>1, <1>3, AcceptedInWindow
  <2>2. lastOk' = now /\ firstOk' = (IF firstOk = None THEN now ELSE firstOk)
    BY <1>3 DEF VerifyAssertion
  <2>3. Bounded'
    BY <1>1, <1>2, <2>1, <2>2 DEF IInv, Bounded, Ticks
  <2>4. QED
    BY <1>1, <2>3 DEF IInv, Signed, Ticks
<1>4. CASE ~Accepts(a, intact)
  <2>1. UNCHANGED <<firstOk, lastOk>>
    BY <1>4 DEF VerifyAssertion
  <2>2. QED
    BY <1>1, <2>1 DEF IInv, Signed, Bounded, Ticks
<1>5. QED
  BY <1>3, <1>4

LEMMA NextIInv == IInv /\ [Next]_vars => IInv'
<1> SUFFICES ASSUME IInv, [Next]_vars
             PROVE  IInv'
  OBVIOUS
<1>1. CASE Tick
  BY <1>1 DEF Tick, IInv, Signed, Bounded, Ticks, claims, history
<1>2. CASE SetClock
  BY <1>2, AssertionAssumption DEF SetClock, IInv, Signed, Bounded, Ticks, claims, history
<1>3. CASE \E a \in Audiences : SignAssertion(a)
  BY <1>3, SignAssertionStep
<1>4. CASE \E a \in Audiences, intact \in BOOLEAN : VerifyAssertion(a, intact)
  BY <1>4, VerifyAssertionStep
<1>5. CASE UNCHANGED vars
  BY <1>5 DEF vars, claims, history, IInv, Signed, Bounded, Ticks
<1>6. QED
  BY <1>1, <1>2, <1>3, <1>4, <1>5 DEF Next

LEMMA Invariant == Spec => []IInv
<1>1. QED
  BY InitIInv, NextIInv, PTL DEF Spec

-------------------------------------------------------------------------------
(* What it implies *)

LEMMA ImpliesWindowBounded == IInv => WindowBounded
<1> SUFFICES ASSUME IInv, firstOk # None
             PROVE  lastOk - firstOk <= (AssertionTTL + MaxClockSkew) * PerSecond
  BY DEF WindowBounded
<1>1. AssertionTTL \in Nat /\ MaxClockSkew \in Nat /\ iat \in Nat
  BY AssertionAssumption DEF IInv, Bounded, Signed
<1>2. Ticks(AssertionTTL) \in Nat /\ Ticks(MaxClockSkew) \in Nat /\ Ticks(iat) \in Nat
  BY <1>1, TicksNat
<1>3. Ticks(AssertionTTL + MaxClockSkew) = Ticks(AssertionTTL) + Ticks(MaxClockSkew)
  BY <1>1, TicksAdd
<1>4. lastOk - firstOk <= Ticks(AssertionTTL + MaxClockSkew)
  BY <1>2, <1>3 DEF IInv, Bounded
<1>5. QED
  BY <1>4 DEF Ticks

LEMMA ImpliesFreshAccepted == IInv => FreshAccepted
<1> SUFFICES ASSUME IInv, iat # None, SkewTolerated,
                    now - signedAt <= (AssertionTTL - MaxClockSkew - 1) * PerSecond
             PROVE  Accepts(aud, TRUE)
  BY DEF FreshAccepted
<1>1. Signed /\ now \in Nat
  BY DEF IInv
<1>2. AssertionTTL \in Nat /\ MaxClockSkew \in Nat /\ PerSecond \in Nat \ {0}
  BY AssertionAssumption
<1>3. /\ Ticks(AssertionTTL) \in Nat /\ Ticks(MaxClockSkew) \in Nat /\ Ticks(iat) \in Nat
  BY <1>1, <1>2, TicksNat DEF Signed
<1>4. now - signedAt <= Ticks(AssertionTTL) - Ticks(MaxClockSkew) - PerSecond
  BY <1>2 DEF Ticks
<1>5. -Ticks(MaxClockSkew) <= signedOff /\ signedOff <= Ticks(MaxClockSkew)
  BY <1>2 DEF SkewTolerated, Ticks
<1>6. Ticks(exp) = Ticks(iat) + Ticks(AssertionTTL)
  BY <1>1, <1>2, TicksAdd DEF Signed
<1>7. now <= Ticks(exp)
  BY <1>1, <1>2, <1>3, <1>4, <1>5, <1>6 DEF Signed
<1>8. exp > 0
  <2>1. SUFFICES ASSUME exp <= 0 PROVE FALSE
    BY <1>1, <1>2 DEF Signed
  <2>2. AssertionTTL = 0
    BY <1>1, <1>2, <2>1 DEF Signed
  <2>3. Ticks(AssertionTTL) = 0
    BY <1>2, <2>2 DEF Ticks
  <2>4. QED
    BY <1>1, <1>2, <1>3, <1>4, <2>3 DEF Signed
<1>9. Ticks(iat) <= now + Ticks(MaxClockSkew)
  BY <1>1, <1>3, <1>5 DEF Signed
<1>10. ~Expired
  <2>1. exp * PerSecond \in Int
    BY <1>1, <1>2 DEF Signed
  <2>2. QED
    BY <1>1, <1>2, <1>7, <1>8, <2>1 DEF Expired, Ticks, Signed
<1>11. ~Future
  <2>1. iat * PerSecond \in Int /\ MaxClockSkew * PerSecond \in Int
    BY <1>1, <1>2 DEF Signed
  <2>2. QED
    BY <1>1, <1>9, <2>1 DEF Future, Ticks
<1>12. QED
  BY <1>10, <1>11 DEF Accepts

(* However wrong the clocks are, an assertion is accepted for at most its  *)
(* lifetime and the leeway.                                                *)
THEOREM Windowed == Spec => []WindowBounded
<1>1. QED
  BY Invariant, ImpliesWindowBounded, PTL

(* A device within the leeway of the server is accepted until the skew and *)
(* the truncated second have used up the lifetime.                         *)
THEOREM Accepted == Spec => []FreshAccepted
<1>1. QED
  BY Invariant, ImpliesFreshAccepted, PTL

===============================================================================
