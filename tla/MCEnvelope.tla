----------------------------- MODULE MCEnvelope -----------------------------
(***************************************************************************)
(* Envelope with the sizes of the code and plaintext lengths at every      *)
(* boundary of the padding budgets:                                         *)
(*   15            a short query (smallest DNS message packet::is_dns takes)*)
(*   300           an ordinary message;                                    *)
(*   55457, 55458  the last client query padded, the first one not;        *)
(*   55465, 55466  the last answer the server pads, the first it does not; *)
(*   55467, 55468  the last query curve accepts, the first it refuses;     *)
(*   55487, 55488  the last answer that fits behind the response header,   *)
(*                 the first that does not;                                *)
(*   55535         query::max_size.                                        *)
(* Tails are the ends of real DNS messages: a question's class (00 01), an *)
(* EDNS OPT record with empty data (00 00), and one that happens to end    *)
(* with 0x80 followed by zero bytes.                                       *)
(***************************************************************************)
EXTENDS Envelope

MCEnvLengths == {15, 300, 55457, 55458, 55465, 55466, 55467, 55468, 55487, 55488,
              55535}

MCEnvTails == {<<0, 1>>, <<0, 0>>, <<128, 0, 0>>}

=============================================================================
