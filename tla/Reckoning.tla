----------------------------- MODULE Reckoning ------------------------------
(***************************************************************************)
(* The program's arithmetic: the calendar of core/dates.rs, the bitrate    *)
(* that is asked of the PC's engine (stream/src/session.rs), and the wake  *)
(* packet (core/wake.rs, host/src/wake.rs).  Each is run over a range of   *)
(* inputs and compared with a plain definition of what it is to compute.   *)
(***************************************************************************)
EXTENDS Integers, Sequences, SequencesExt

CONSTANTS Years,   \* the years whose days are walked
          Targets, \* bitrates in kbps, below 2^20, where f32 divides exactly enough
          Bytes    \* values of a byte, 0 and 255 among them

ReckoningAssumption ==
  /\ Years \subseteq Nat /\ Targets \subseteq Nat
  /\ {0, 255} \subseteq Bytes

VARIABLES
  work,        \* what is reckoned: "date", "bitrate" or "wake"
  day, date,   \* a day since 1970-01-01, and its date <<y, m, d>>
  target, request, settled,
  mac, packet, heard

vars == <<work, day, date, target, request, settled, mac, packet, heard>>
dateVars == <<day, date>>
bitrateVars == <<target, request, settled>>
wakeVars == <<mac, packet, heard>>

-----------------------------------------------------------------------------
(* core/dates.rs; its divisions round to zero, and are of numbers >= 0.    *)

DaysFromCivil(y0, m, d) ==
  LET y == IF m <= 2 THEN y0 - 1 ELSE y0
      era == y \div 400
      yoe == y - era * 400
      doy == (153 * ((m + 9) % 12) + 2) \div 5 + d - 1
  IN era * 146097 + yoe * 365 + yoe \div 4 - yoe \div 100 + doy - 719468

CivilFromDays(z0) ==
  LET z == z0 + 719468
      era == z \div 146097
      doe == z - era * 146097
      yoe == (doe - doe \div 1460 + doe \div 36524 - doe \div 146096) \div 365
      doy == doe - (365 * yoe + yoe \div 4 - yoe \div 100)
      mp == (5 * doy + 2) \div 153
      m == IF mp < 10 THEN mp + 3 ELSE mp - 9
  IN <<yoe + era * 400 + (IF m <= 2 THEN 1 ELSE 0), m, doy - (153 * mp + 2) \div 5 + 1>>

\* The calendar, as people keep it.
Leap(y) == y % 4 = 0 /\ (y % 100 # 0 \/ y % 400 = 0)
MonthLength(y, m) ==
  IF m = 2 THEN (IF Leap(y) THEN 29 ELSE 28) ELSE IF m \in {4, 6, 9, 11} THEN 30 ELSE 31

NextDay ==
  /\ work = "date" /\ date[1] \in Years /\ day' = day + 1
  /\ date' = LET y == date[1] m == date[2] d == date[3]
             IN IF d < MonthLength(y, m) THEN <<y, m, d + 1>>
                ELSE IF m < 12 THEN <<y, m + 1, 1>> ELSE <<y + 1, 1, 1>>
  /\ UNCHANGED <<work, bitrateVars, wakeVars>>

-----------------------------------------------------------------------------
(* request_bitrate_kbps.                                                   *)

MaxRequest == 200000
Least(a, b) == IF a < b THEN a ELSE b

\* sunshine_encoder_kbps: 20% for FEC, then audio, then control.
Encoder(r) ==
  LET fec == (4 * r) \div 5
      audio == fec - Least(512, fec \div 5)
  IN audio - Least(500, audio \div 10)

Guess(t) == ((t + 512 + 500) * 5) \div 4

\* MUTANT: the closed form is only ever raised.
SettleUp ==
  /\ work = "bitrate" /\ ~settled
  /\ IF Encoder(request) < target THEN request' = request + 1 /\ UNCHANGED settled
     ELSE request' = Least(request, MaxRequest) /\ settled' = TRUE
  /\ UNCHANGED <<work, target, dateVars, wakeVars>>

\* The two loops, and the cap.
Settle ==
  /\ work = "bitrate" /\ ~settled
  /\ \/ /\ Encoder(request) < target
        /\ request' = request + 1 /\ UNCHANGED settled
     \/ /\ Encoder(request) >= target /\ request > 1 /\ Encoder(request - 1) >= target
        /\ request' = request - 1 /\ UNCHANGED settled
     \/ /\ Encoder(request) >= target /\ (request = 1 \/ Encoder(request - 1) < target)
        /\ request' = Least(request, MaxRequest) /\ settled' = TRUE
  /\ UNCHANGED <<work, target, dateVars, wakeVars>>

-----------------------------------------------------------------------------
(* The wake packet.                                                        *)

Filled(n, b) == [i \in 1..n |-> b]

\* MacAddr::parse refuses what virtual adapters report.
Macs == [1..6 -> Bytes] \ {Filled(6, 0), Filled(6, 255)}

MagicPacket(m) == [i \in 1..102 |-> IF i <= 6 THEN 255 ELSE m[((i - 1) % 6) + 1]]

\* magic_target, of the first 102 bytes of what arrives.
MagicTarget(p) ==
  IF Len(p) < 102 \/ \E i \in 1..6 : p[i] # 255 THEN <<>>
  ELSE LET m == SubSeq(p, 7, 12)
       IN IF m # Filled(6, 255) /\ \A i \in 7..102 : p[i] = m[((i - 1) % 6) + 1] THEN m ELSE <<>>

\* It arrives as it was sent, with a password behind it, cut short, or with a wrong byte.
Arrive ==
  /\ work = "wake" /\ packet = "none"
  /\ LET sent == MagicPacket(mac) IN
       \/ packet' = "whole" /\ heard' = MagicTarget(sent)
       \/ packet' = "longer" /\ heard' = MagicTarget(sent \o Filled(6, 0))
       \/ packet' = "spoilt" /\ \E n \in {0, 6, 12, 101} : heard' = MagicTarget(SubSeq(sent, 1, n))
       \/ packet' = "spoilt" /\ \E i \in 1..102, b \in Bytes :
            b # sent[i] /\ heard' = MagicTarget([sent EXCEPT ![i] = b])
  /\ UNCHANGED <<work, dateVars, bitrateVars, mac>>

-----------------------------------------------------------------------------
Init ==
  /\ work \in {"date", "bitrate", "wake"}
  /\ date \in (IF work = "date" THEN {<<y, 1, 1>> : y \in Years} ELSE {<<1970, 1, 1>>})
  /\ day = DaysFromCivil(date[1], 1, 1)
  /\ target \in (IF work = "bitrate" THEN Targets ELSE {0})
  /\ request = Guess(target) /\ settled = FALSE
  /\ mac \in (IF work = "wake" THEN Macs ELSE {<<>>}) /\ packet = "none" /\ heard = <<>>

Next == NextDay \/ Settle \/ Arrive

Spec == Init /\ [][Next]_vars

(* days_from_civil and civil_from_days (core/dates.rs:6): each is the      *)
(* other's inverse on every day of the calendar, leap years and centuries  *)
(* included.                                                               *)
CalendarAgrees ==
  work = "date" =>
    DaysFromCivil(date[1], date[2], date[3]) = day /\ CivilFromDays(day) = date

(* request_bitrate_kbps (stream/src/session.rs:384): "the smallest request *)
(* that survives every deduction at or above the target", up to the cap.   *)
SmallestThatSurvives ==
  work = "bitrate" /\ settled =>
    /\ request = MaxRequest \/ Encoder(request) >= target
    /\ \A r \in 1..(request - 1) : Encoder(r) < target

(* magic_target (core/wake.rs:48): a wake packet is heard as the address   *)
(* it was made for, and one that is short or has a wrong byte as none.     *)
WakeIsItsOwn ==
  /\ packet \in {"whole", "longer"} => heard = mac
  /\ packet = "spoilt" => heard = <<>>
=============================================================================
