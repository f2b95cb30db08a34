---------------------------- MODULE Spc700Driver ----------------------------
(***************************************************************************)
(* The sound driver of the SPC700 (audio/synth/spc700_driver.cpp): from    *)
(* the events of a tick, the instruments and the samples in the RAM it     *)
(* makes register writes.                                                  *)
(*                                                                         *)
(* A note is a number or Cut.  v_srcn stands for the sample index, the     *)
(* envelope and the pitch that are written with it, v_vol for the two      *)
(* volume registers, master for the volumes and switches of the whole      *)
(* chip, and a volume for the volume and the pan.                          *)
(***************************************************************************)
EXTENDS Optional, Integers, SequencesExt

CONSTANT Cut        \* NOTE_CUT, and NOTE_RELEASE

ASSUME CutAssumption == Cut # None

InitialVolume == "initial"

(* Spc700ChannelDriver: _prev_instr, _prev_note, _note_playing and         *)
(* _prev_volume with _prev_pan.                                            *)
NewChannelDriver == [instr |-> None, note |-> 0, playing |-> FALSE, volume |-> InitialVolume]

Write(register, channel, value) ==
  [register |-> register, channel |-> channel, value |-> value]

-----------------------------------------------------------------------------
(* Spc700ChannelDriver::run_driver().                                      *)

(* Patches whose min_note is not above those before them do not count.     *)
FindPatch(keysplit, note) ==
  LET matching == {k \in DOMAIN keysplit :
                     /\ keysplit[k].min_note <= note
                     /\ \A j \in 1 .. k - 1 : keysplit[j].min_note < keysplit[k].min_note}
  IN  IF matching = {} THEN None ELSE keysplit[Max(matching)]

(* Whether try_play_note() succeeds.                                       *)
Playable(doc, ram, instr, note) ==
  /\ instr # None
  /\ doc.instruments[instr] # None
  /\ LET patch == FindPatch(doc.instruments[instr], note)
     IN  patch # None /\ ram[patch.sample_idx] # None

SampleOf(doc, instr, note) == FindPatch(doc.instruments[instr], note).sample_idx

(* The driver of a channel on its way through the events of a tick: d, the *)
(* writes it makes, whether it keys the channel on and off, and whether    *)
(* the volumes changed.                                                    *)
BeginEvents(d) ==
  [d |-> d, writes |-> <<>>, kon |-> FALSE, koff |-> FALSE, volumes_changed |-> FALSE]

NoteCut(s) == [s EXCEPT !.koff = TRUE, !.d.playing = FALSE]

PlayNote(doc, ram, c, s) ==
  IF Playable(doc, ram, s.d.instr, s.d.note)
    THEN [s EXCEPT !.writes =
            Append(@, Write("v_srcn", c, SampleOf(doc, s.d.instr, s.d.note)))]
    ELSE NoteCut(s)

(* An instrument alone goes to the note that plays.                        *)
InstrEvent(doc, ram, c, s, ev) ==
  LET changed == [s EXCEPT !.d.instr = ev.instr]
  IN  IF ev.instr = None THEN s
      ELSE IF s.d.playing /\ ev.note = None THEN PlayNote(doc, ram, c, changed)
      ELSE changed

NoteEvent(doc, ram, c, s, ev) ==
  LET noted == [s EXCEPT !.d.note = ev.note]
  IN  CASE ev.note = None -> s
        [] ev.note = Cut -> NoteCut(s)
        [] ev.note \notin {None, Cut} /\ ~Playable(doc, ram, s.d.instr, ev.note) ->
             NoteCut(noted)
        [] OTHER -> [PlayNote(doc, ram, c, noted) EXCEPT !.kon = TRUE, !.d.playing = TRUE]

VolumeEvent(s, ev) ==
  IF ev.volume = None THEN s
  ELSE [s EXCEPT !.d.volume = ev.volume, !.volumes_changed = TRUE]

RunEvents(doc, ram, c, d, events) ==
  LET step(s, ev) ==
        VolumeEvent(NoteEvent(doc, ram, c, InstrEvent(doc, ram, c, s, ev), ev), ev)
      ran[k \in 0 .. Len(events)] ==
        IF k = 0 THEN BeginEvents(d) ELSE step(ran[k - 1], events[k])
  IN  ran[Len(events)]

WriteVolume(c, d) == <<Write("v_vol", c, d.volume)>>

ChannelWrites(c, s) ==
  s.writes \o (IF s.volumes_changed THEN WriteVolume(c, s.d) ELSE <<>>)

-----------------------------------------------------------------------------
(* Spc700Driver::run_driver(), of what its channels made of their events.  *)

(* The writes of the channels, one after the other.                        *)
InChannels(writes) ==
  LET order == SetToSeq(DOMAIN writes) IN FlattenSeq([k \in DOMAIN order |-> writes[order[k]]])

FlagWrite(register, flags) == IF flags = {} THEN <<>> ELSE <<Write(register, None, flags)>>

(* Bug: key-off flags are only cleared when there are new ones. *)
DriverWritesKeepKoff(s) ==
  InChannels([c \in DOMAIN s |-> ChannelWrites(c, s[c])])
    \o FlagWrite("koff", {c \in DOMAIN s : s[c].koff})
    \o FlagWrite("kon", {c \in DOMAIN s : s[c].kon})

DriverWrites(s) ==
  <<Write("koff", None, {})>>
    \o InChannels([c \in DOMAIN s |-> ChannelWrites(c, s[c])])
    \o FlagWrite("koff", {c \in DOMAIN s : s[c].koff})
    \o FlagWrite("kon", {c \in DOMAIN s : s[c].kon})

(* Bug: the key-on register keeps its initial value. *)
RestoreStateKeyedOn(drivers) ==
  <<Write("master", None, TRUE)>>
    \o InChannels([c \in DOMAIN drivers |-> WriteVolume(c, drivers[c])])

(* restore_state().                                                        *)
RestoreState(drivers) ==
  <<Write("master", None, TRUE), Write("kon", None, {})>>
    \o InChannels([c \in DOMAIN drivers |-> WriteVolume(c, drivers[c])])
=============================================================================
