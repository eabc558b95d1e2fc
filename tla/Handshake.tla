------------------------------ MODULE Handshake ------------------------------
(***************************************************************************)
(* How the bridge finds the ticket in what a browser offers as WebSocket    *)
(* subprotocols (internal/terminal/codes.go).                               *)
(***************************************************************************)
EXTENDS Integers, Sequences

CONSTANT Ticket   \* what may follow the prefix, nothing excepted

Nothing == ""

(* An element of the offered list: the fixed name, ticket.<t> where t may   *)
(* be nothing, anything else, or a blank.                                   *)
Token(kind, ticket) == [kind |-> kind, ticket |-> ticket]

Name == Token("name", Nothing)
Bearing(ticket) == Token("ticket", ticket)
Foreign == Token("foreign", Nothing)
Blank == Token("blank", Nothing)

Offered == {Name, Foreign} \cup {Bearing(t) : t \in Ticket \cup {Nothing}}

(* Headers are split at commas and trimmed; blanks do not count.            *)
Tokens(elements) == SelectSeq(elements, LAMBDA x : x # Blank)

(* The last token with the prefix decides.                                  *)
LastTicket(tokens) ==
  IF tokens[2].kind = "ticket" THEN tokens[2].ticket
  ELSE IF tokens[1].kind = "ticket" THEN tokens[1].ticket
  ELSE Nothing

(* The ticket, or nothing if the offer is refused.                          *)
ParseSubprotocols(tokens) ==
  IF Len(tokens) = 2 /\ (tokens[1] = Name \/ tokens[2] = Name)
  THEN LastTicket(tokens)
  ELSE Nothing

=============================================================================
