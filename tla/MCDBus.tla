------------------------------- MODULE MCDBus -------------------------------
(* DBus with three messages: a call whose frame has one entry more than    *)
(* fits, a signal that asks the service to forward a frame with an entry   *)
(* that cannot be encoded, and a reply to a command of the service.        *)
EXTENDS DBus

CONSTANTS key, text, number

Text   == Entry(key, "s", 5, text)
Number == Entry(key, "i", 4, number)

MCKind == [call |-> "call", signal |-> "signal", reply |-> "reply"]

MCCmd ==
  [call   |-> [RemoteCmd("ui", 7, 9, 1, 255) EXCEPT
                 !.entries = <<Number, Text, Number>>],
   signal |-> AddEntry(RemoteCmd("ui", 8, SentCmd, 255, 1),
                       Entry(key, "x", 1, number))]

MCReport ==
  AddEntry(RemoteCmd("SYSTEM-MANAGER", 2, SentCmd, 2, 1), Number)
=============================================================================
