----------------------------- MODULE MCRedelivery -----------------------------
(* A small instance of Redelivery for TLC. *)
EXTENDS Redelivery

\* Plain bytes are read as those that only start with a brace.
Payloads == Data \ {Plain}
===============================================================================
