---------------------------- MODULE FoxdbgPacing ----------------------------
(***************************************************************************)
(* When a foxdbg channel is due: the period that foxdbg_add_channel        *)
(* computes from target_hz and the test of                                 *)
(* foxdbg_protocol_transmit_subscriptions, in the arithmetic of uint64_t   *)
(* over a wall clock in milliseconds that may be set.                      *)
(***************************************************************************)
EXTENDS Integers

CONSTANT Modulus        \* 2^64

ASSUME ModulusAssumption == Modulus \in Nat /\ Modulus > 1000

\* The quotient of two ints in C: rounded towards zero.
Quotient(a, b) == IF b > 0 THEN a \div b ELSE -(a \div (-b))

\* foxdbg_add_channel: target_tx_time = (1000 / target_hz), for target_hz # 0.
TargetTxTime(hz) == Quotient(1000, hz) % Modulus

\* uint64_t elapsed = current_time - last_time
Elapsed(now, last) == (now - last) % Modulus

\* elapsed > current->target_tx_time
Due(elapsed, target) == elapsed > target
=============================================================================
