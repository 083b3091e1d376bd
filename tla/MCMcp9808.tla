----------------------------- MODULE MCMcp9808 -----------------------------
(***************************************************************************)
(* Mcp9808 over every temperature, with the alert flags clear and, around  *)
(* the change of the sign and the ends of the range, set; and at the       *)
(* uptimes where a field of now_str rolls over.                            *)
(***************************************************************************)
EXTENDS Mcp9808

MCRegister ==
  (0..8191) \cup {f * 8192 + t : f \in 1..7, t \in {0, 1, 15, 16, 4095, 4096, 8176, 8191}}
MCUptime == {0, 3599, 3599999, 4294967}
=============================================================================
