-------------------------- MODULE MCControlRequest --------------------------
\* Instances of ControlRequest for TLC: any two requests, among them a POST of
\* each kind.
EXTENDS ControlRequest

Get(need) == [need |-> need, setting |-> None]
Post(to, word, number) ==
    [need |-> {to}, setting |-> [to |-> to, word |-> word, number |-> number]]

Lookups == {Get({"input"}), Get({"temp_status", "temperature"})}
Posts == {Post("relay", "off", 0), Post("relay", "timer", 70000),
          Post("blind", "down", 0), Post("dimmer", "dim", -5),
          Post("temp_status", "night", 0), Post("temp_status", "target", 41)}
Contents == Lookups \cup Posts

Mild == {12000}
Start == {"temp_status"}
=============================================================================
