------------------------------- MODULE Config -------------------------------
(***************************************************************************)
(* The saved configuration as moonlight_config.cpp reads and writes it:    *)
(* nine layouts a console may still hold, the one the load recognises, the *)
(* settings each of them carries, what a missing or senseless value        *)
(* becomes, and the layout every save writes.  A file is a record; its     *)
(* bytes, and the order the layouts are tried in, are the layout's name,   *)
(* which size, version and checksum give away.                             *)
(***************************************************************************)
EXTENDS Integers

CONSTANT MaxHosts   \* MOONLIGHT_CONFIG_MAX_HOSTS

\* Assumed of the constants.
ConfigAssumption == MaxHosts \in Nat \ {0}

VARIABLES
  file,   \* the file on the console: [layout, config], or NoFile
  first,  \* what the first start loaded
  again,  \* what the start after a save loads
  step    \* "load", "save", "reload", "done"

vars == <<file, first, again, step>>

Layouts == {"v1", "v2", "v3", "v4", "v5", "v6", "v7upstream", "v7pyrowave", "v8"}

\* The settings with no rule of their own: any value but "bad" is kept.
Plain == {"area", "resolution", "fps", "audio", "vsync", "chroma"}

NoFile == [layout |-> "none"]

\* moonlight_config_defaults.
Defaults ==
  [plain |-> [p \in Plain |-> "default"], bitrate |-> "default", codec |-> "h264",
   hdr |-> 0, decoder |-> "default", count |-> 0, selected |-> 0, ports |-> "default"]

\* The layout each plain setting first appeared in; chroma was in one of the
\* two layouts numbered seven.
Since(p) == CASE p = "area" -> {"v1", "v2", "v3", "v4", "v5"} []
                 p = "resolution" -> {"v2", "v3", "v4", "v5"} []
                 p = "fps" -> {"v4", "v5"} []
                 p = "audio" -> {"v5"} []
                 OTHER -> {}

Carries(layout, p) ==
  \/ layout = "v8"
  \/ layout \in {"v6", "v7upstream", "v7pyrowave"} /\ p # "chroma"
  \/ layout = "v7pyrowave" /\ p = "chroma"
  \/ layout \in Since(p)

CarriesCodec(layout) == layout # "v1"
CarriesHdr(layout) == layout \notin {"v1", "v2"}
CarriesDecoder(layout) == layout \in {"v6", "v7upstream", "v7pyrowave", "v8"}
\* copy_legacy_hosts: before, a PC's port was part of its address or unknown.
CarriesPorts(layout) == layout \in {"v7upstream", "v8"}

\* The file is taken when its checksum holds and it has not too many PCs.
Taken(f) == f.layout # "none" /\ f.sound /\ f.config.count <= MaxHosts

\* What the layout has replaces the defaults.
Copied(f) ==
  [plain |-> [p \in Plain |-> IF Carries(f.layout, p) THEN f.config.plain[p] ELSE "default"],
   bitrate |-> f.config.bitrate,
   codec |-> IF CarriesCodec(f.layout) THEN f.config.codec ELSE "h264",
   hdr |-> IF CarriesHdr(f.layout) THEN f.config.hdr ELSE 0,
   decoder |-> IF CarriesDecoder(f.layout) THEN f.config.decoder ELSE "default",
   count |-> f.config.count, selected |-> f.config.selected,
   ports |-> IF CarriesPorts(f.layout) THEN f.config.ports ELSE f.config.address]

\* A number of PCs the selection points into, and values the settings page has.
Selected(c) == IF c.count = 0 THEN 0 ELSE IF c.selected >= c.count THEN c.count - 1 ELSE c.selected

Settled(c) ==
  [plain |-> [p \in Plain |-> IF c.plain[p] = "bad" THEN "default" ELSE c.plain[p]],
   bitrate |-> IF c.bitrate = "bad" THEN "default" ELSE c.bitrate,
   codec |-> IF c.codec = "bad" THEN "h264" ELSE c.codec,
   hdr |-> IF c.hdr = 2 THEN 0 ELSE c.hdr,
   decoder |-> "default", count |-> c.count, selected |-> Selected(c),
   ports |-> IF c.ports = "zero" THEN "default" ELSE c.ports]

\* HDR needs ten bits a sample: H.264 gives way to HEVC, last of all.
HdrCodec(c) == IF c.hdr = 1 /\ c.codec = "h264" THEN [c EXCEPT !.codec = "hevc"] ELSE c

\* A bug: HDR asks for its codec before the settings were put in range.
LoadedHdrFirst(f) == IF Taken(f) THEN Settled(HdrCodec(Copied(f))) ELSE Defaults

\* moonlight_config_load.
Loaded(f) == IF Taken(f) THEN HdrCodec(Settled(Copied(f))) ELSE Defaults

\* moonlight_config_save: the newest layout, which has a PC's port by itself.
Written(c) ==
  [layout |-> "v8", sound |-> TRUE,
   config |-> [plain |-> c.plain, bitrate |-> c.bitrate, codec |-> c.codec, hdr |-> c.hdr,
               decoder |-> c.decoder, count |-> c.count, selected |-> c.selected,
               ports |-> c.ports, address |-> "default"]]

\* What a console may hold: any layout, sound or torn, with at most one plain
\* setting out of range; a legacy PC has its port in its address or nowhere.
Configs ==
  [plain : {[p \in Plain |-> "chosen"]}
             \cup {[p \in Plain |-> IF p = b THEN "bad" ELSE "chosen"] : b \in Plain},
   bitrate : {"chosen", "bad"}, codec : {"h264", "pyrowave", "bad"}, hdr : {0, 1, 2},
   decoder : {"chosen"}, count : {0, MaxHosts, MaxHosts + 1}, selected : {0, MaxHosts},
   ports : {"chosen", "zero"}, address : {"chosen", "zero"}]

Torn == CHOOSE c \in Configs : TRUE

Files == {NoFile} \cup [layout : Layouts, sound : {TRUE}, config : Configs]
         \cup [layout : Layouts, sound : {FALSE}, config : {Torn}]

Init == file \in Files /\ first = Defaults /\ again = Defaults /\ step = "load"

Load == step = "load" /\ first' = Loaded(file) /\ step' = "save" /\ UNCHANGED <<file, again>>

\* A save the console takes; Storage has the ones it does not.
Save == step = "save" /\ file' = Written(first) /\ step' = "reload" /\ UNCHANGED <<first, again>>

Reload == step = "reload" /\ again' = Loaded(file) /\ step' = "done" /\ UNCHANGED <<file, first>>

Next == Load \/ Save \/ Reload

Spec == Init /\ [][Next]_vars

Settings == [plain : [Plain -> {"default", "chosen"}], bitrate : {"default", "chosen"},
             codec : {"h264", "hevc", "pyrowave"}, hdr : {0, 1}, decoder : {"default"},
             count : 0 .. MaxHosts, selected : 0 .. MaxHosts, ports : {"default", "chosen"}]

TypeOK == first \in Settings /\ again \in Settings

\* A start never selects a PC that is not there, and never asks for ten bits
\* of a codec that has none, whichever layout the console still holds.
Usable(c) ==
  /\ IF c.count = 0 THEN c.selected = 0 ELSE c.selected < c.count
  /\ c.hdr = 1 => c.codec # "h264"

\* What was loaded once is what every later start loads: migrating a file
\* changes nothing a second time.
MigratesOnce == step = "done" => again = first

\* The load of every layout (moonlight_config.cpp:313): it yields settings the
\* stream can use, whatever was on the console, and saving and loading them
\* again gives the same.
ConfigOK == TypeOK /\ Usable(first) /\ MigratesOnce

=============================================================================
