------------------------------ MODULE MCService ------------------------------
(* Nodes with a few cports: what the samples' overlays declare, in small.  *)
EXTENDS Service

Str(id, text) == [type |-> "string", id |-> id, text |-> text]
Dev(id, name, meant, link, linked) ==
  [type |-> "device", id |-> id, name |-> name, meant |-> meant,
   link |-> link, linked |-> linked, shift |-> 0]
Prop(id, name, meant) == [type |-> "property", id |-> id, name |-> name, meant |-> meant]
Bundle(id) == [type |-> "bundle", id |-> id]
CPort(id, b, p) == [type |-> "cport", id |-> id, bundle |-> b, protocol |-> p]
Bad == [type |-> "bad"]

Strings == <<Str(1, "vendor"), Str(2, "product")>>

Usual == Strings \o
  <<Bundle(0), CPort(0, 0, "control"), Bundle(1), CPort(1, 1, "gpio"), CPort(2, 1, "i2c")>>

(* Two gpio controllers, each in a bundle of its own.                      *)
TwoGpio ==
  <<Bundle(0), CPort(0, 0, "control"), Bundle(1), CPort(1, 1, "gpio"),
    Bundle(2), CPort(2, 2, "gpio")>>

(* Two gpio controllers and an i2c in one bundle, out of order, beside a   *)
(* device of the board's own with its property.                            *)
OneBundle ==
  <<Str(1, "vendor"), Dev(1, 1, "vendor", 1, "vendor"), Prop(1, 1, "vendor"),
    Bundle(0), CPort(0, 0, "control"), Bundle(1), CPort(2, 1, "gpio"),
    CPort(1, 1, "gpio"), CPort(3, 1, "spi")>>

(* A bundle whose cports are numbered with a gap, and one never declared.  *)
Gaps ==
  <<Bundle(0), CPort(0, 0, "control"), Bundle(1), CPort(1, 1, "i2c"),
    CPort(3, 1, "gpio"), CPort(2, 2, "gpio")>>

(* No control cport.                                                       *)
NoControl == Strings \o <<Bundle(1), CPort(1, 1, "gpio"), CPort(2, 1, "i2c")>>

MCManifests ==
  {Usual, TwoGpio, OneBundle, Gaps, NoControl, Strings, Usual \o <<Bad>>}
MCNoControl == {NoControl}

Eeprom == <<[type |-> "mikrobus"], Bundle(1), Str(1, "thermo"), Str(2, "range"),
            Dev(1, 1, "thermo", 1, "range"), Prop(1, 2, "range")>>
Relay == <<Str(1, "relay"), Prop(1, 1, "relay"), Dev(1, 1, "relay", 1, "relay"),
           CPort(4, 1, "spi")>>

MCClicks ==
  {<<>>, <<Eeprom, Relay>>, <<Relay, <<>>>>, <<Relay, <<Str(1, "relay"), Bad>>>>}
=============================================================================
