------------------------------- MODULE Envelope -------------------------------
(***************************************************************************)
(* How a payload is read (envelope.py): the JSON of versions 0.x, or       *)
(* FastStream's binary format for everything else.  A string of bytes is   *)
(* what its readers can tell of it: FastStream's identity header; a first  *)
(* byte "{"; whether json.loads reads a dict; and the dict's "b".          *)
(***************************************************************************)
Bytes(v1, brace, dict, b) == [v1 |-> v1, brace |-> brace, dict |-> dict, b |-> b]

\* Published by this version, by a version 0.x, the same with a body that is not hex,
\* and what somebody else put into the hash.
Binary  == Bytes(TRUE, FALSE, FALSE, "absent")
Legacy  == Bytes(FALSE, TRUE, TRUE, "hex")
Damaged == Bytes(FALSE, TRUE, TRUE, "other")
NotJson == Bytes(FALSE, TRUE, FALSE, "absent")
Foreign == Bytes(FALSE, TRUE, TRUE, "absent")
Plain   == Bytes(FALSE, FALSE, FALSE, "absent")

Data == {Binary, Legacy, Damaged, NotJson, Foreign, Plain}

\* BinaryMessageFormatV1.parse: without its header the bytes are the body.
ParseV1(data) == IF data.v1 THEN "body" ELSE "raw"

\* Faulty: what starts with a brace must be an envelope.
ParseBrace(data) ==
    IF ~data.brace THEN ParseV1(data)
    ELSE IF data.b = "hex" THEN "body" ELSE "ValueError"

\* Only a dict with a "b" is taken for the envelope of a version 0.x.
Parse(data) ==
    IF ~(data.brace /\ data.dict /\ data.b # "absent") THEN ParseV1(data)
    ELSE IF data.b = "hex" THEN "body" ELSE "ValueError"
===============================================================================
