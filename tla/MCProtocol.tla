---------------------------- MODULE MCProtocol ----------------------------
(* Protocol with three octets, names of up to three, and fields of one octet each. *)
EXTENDS Protocol

CONSTANTS empty, a, e, aaa

\* The octet 2 begins a character of two octets, and 0 is none.
MCUtf8 == [n \in Names |-> CASE n = empty -> <<>>
                             [] n = a     -> <<1>>
                             [] n = e     -> <<2, 1>>
                             [] n = aaa   -> <<1, 1, 1>>]

\* 3 is no packet type; a length may be past MaxPayload, past the end or before it, and
\* that of a name past MaxName.
Rest == UNION {[1..n -> 0..2] : n \in 0..MaxPayload}
Bodies == {<<>>} \cup {<<len>> \o rest : len \in Octet, rest \in Rest}
Headers == [whole : {TRUE}, magic : {0, Magic}, type : Octet, flags : {0},
            plen : 0..MaxLength, body : {<<>>}]

MCForeign ==
    {Empty}
    \cup {h \in Headers : h.magic # Magic \/ h.plen > MaxPayload \/ h.type \notin Types}
    \cup [whole : {TRUE}, magic : {Magic}, type : Types, flags : {0},
          plen : 0..MaxPayload, body : Bodies]
=============================================================================
