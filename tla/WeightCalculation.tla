------------------------- MODULE WeightCalculation -------------------------
(***************************************************************************)
(* The pure weight arithmetic of backend/app/domain/weighing.py.           *)
(*                                                                         *)
(* Every weight is a Decimal number of tons.  Two integer units are used:  *)
(*   - a RAW weight counts 0.0001 t, one decimal more than is stored; it   *)
(*     stands for a weight as it reaches quantize_tons;                    *)
(*   - a TICK counts 0.001 t, the precision of the NUMERIC(10, 3) columns. *)
(* One extra decimal is enough to tell the rounding rules apart: below,    *)
(* exactly at and above half a tick are all representable.                 *)
(***************************************************************************)
EXTENDS Integers

RawPerTick == 10

RawOf(ticks) == RawPerTick * ticks

(***************************************************************************)
(* Deliberate faults.  Each is a plausible slip in the definition it is    *)
(* named after; no specification uses them.                                *)
(***************************************************************************)
QuantizeTonsTruncating(raw) == raw \div RawPerTick
-----------------------------------------------------------------------------
(* ROUND_HALF_UP to 0.001 t: the nearest tick, a tie away from zero.       *)
QuantizeTons(raw) ==
  IF raw >= 0 THEN (raw + 5) \div RawPerTick ELSE - ((5 - raw) \div RawPerTick)

Verdicts == {"PENDING", "NORMAL", "OVERWEIGHT"}

(* The three ValidationErrors of calculate_weight, on ticks.               *)
Weighable(tare, gross, allowed) == tare > 0 /\ allowed > 0 /\ gross > tare

IsNormal(gross, allowed) == gross <= allowed

Parts(tare, gross, allowed) ==
  [net        |-> gross - tare,
   overweight |-> IF gross > allowed THEN gross - allowed ELSE 0]

(* The summary of one gross or reweigh reading; no summary exists before.  *)
Unweighed == [gross |-> 0, net |-> 0, overweight |-> 0, result |-> "PENDING"]

WeightVerdict(tare, gross, allowed) ==
  [gross      |-> gross,
   net        |-> Parts(tare, gross, allowed).net,
   overweight |-> Parts(tare, gross, allowed).overweight,
   result     |-> IF IsNormal(gross, allowed) THEN "NORMAL" ELSE "OVERWEIGHT"]

Calculable(rawTare, rawGross, rawAllowed) ==
  Weighable(QuantizeTons(rawTare), QuantizeTons(rawGross), QuantizeTons(rawAllowed))

CalculateWeight(rawTare, rawGross, rawAllowed) ==
  WeightVerdict(QuantizeTons(rawTare), QuantizeTons(rawGross), QuantizeTons(rawAllowed))
=============================================================================
