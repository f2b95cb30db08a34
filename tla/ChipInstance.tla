---------------------------- MODULE ChipInstance ----------------------------
(***************************************************************************)
(* A chip in the audio callback: the commands of the GUI, the Sequencer,   *)
(* the Spc700Driver, the queue of its register writes, the event loop that *)
(* writes them (audio/synth/impl_chip_common.h, chip_instance_common.cpp), *)
(* and the sound chip.                                                     *)
(*                                                                         *)
(* A callback goes through the phases that pc tells: "commands", "timer",  *)
(* "running", and "loading" while samples are reloaded, after which pc is  *)
(* what after_load holds.  Clocks are counted in halves of the shortest    *)
(* timer period, CLOCKS_PER_TWO_SAMPLES: the chip polls its key-on and     *)
(* key-off registers once in each.                                         *)
(***************************************************************************)
EXTENDS Sequencer, SampleRam, Spc700Driver

CONSTANTS
  ClocksPerTimer,  \* SequencerTiming::clocks_per_timer()
  MaxCommands      \* bound on the commands of a callback

ASSUME ClocksPerTimerAssumption == ClocksPerTimer \in Nat /\ ClocksPerTimer >= 2

(* Samples loop inside themselves, and empty ones at 0.  reload_samples()  *)
(* asserts more of them, sizes that validation only warns about, but says  *)
(* that others "are safe to load anyway": here they may have any size.     *)
ASSUME SamplesAssumption ==
  \A d \in Documents : \A i \in SampleIndex : d.samples[i] # None =>
    /\ d.samples[i].size \in Nat /\ d.samples[i].loop_byte \in Nat
    /\ d.samples[i].loop_byte < d.samples[i].size \/ d.samples[i].loop_byte = 0

(* Instruments are found by the instrument numbers of rows, and the        *)
(* samples of their patches by indices of the sample list.                 *)
ASSUME InstrumentsAssumption ==
  \A d \in Documents :
    /\ \A row \in Rows : row.instr # None => row.instr \in DOMAIN d.instruments
    /\ \A i \in DOMAIN d.instruments : d.instruments[i] # None =>
         d.instruments[i] \in Seq([min_note : Int, sample_idx : SampleIndex])

ASSUME NoneAssumption ==
  \A d \in Documents : \A i \in SampleIndex : \A addr \in 0 .. SPC_MEMORY_SIZE :
    d.samples[i] # None => Loaded(addr, d.samples[i]) # None

VARIABLES
  pc,
  after_load,
  commands,         \* bound: commands handled in this callback
  samples_modified, \* total_modified has SamplesEdited
  drivers,          \* Spc700Driver::_channels
  loader,           \* of reload_samples(), and what it left in the RAM
  writes,           \* _register_writes that are not read yet, with their time_before
  accum,            \* accum_dtime
  clocks,           \* clocks until ChipEvent::EndOfTick
  dsp,              \* the registers and voices of the sound chip
  late              \* history: the chip was last reset while writes waited for a key-off

chip_vars == <<pc, after_load, commands, samples_modified, drivers, loader, writes, accum,
               clocks, dsp, late>>
all_vars == <<vars, chip_vars>>

-----------------------------------------------------------------------------
(* RegisterWriteQueue.                                                     *)

(* The first of new waits for accum.                                       *)
Queued(new) ==
  writes \o [k \in DOMAIN new |->
               [write |-> new[k], time_before |-> IF k = 1 THEN accum ELSE 0]]

WriteAll(new) == writes' = Queued(new) /\ accum' = 0

-----------------------------------------------------------------------------
(* The sound chip.  voice is the sample a voice plays, or None; new_kon is *)
(* the register, kon what was read of it last.                             *)

(* SPC_DSP::init(), with initial registers that key voices on.             *)
ResetDsp ==
  [master |-> FALSE, dir |-> FALSE, koff |-> {}, new_kon |-> Channels, kon |-> {},
   v_vol |-> [c \in Channels |-> None], v_srcn |-> [c \in Channels |-> -1],
   voice |-> [c \in Channels |-> None]]

WriteReg(d, w) ==
  CASE w.register = "kon" -> [d EXCEPT !.new_kon = w.value]
    [] w.register = "koff" -> [d EXCEPT !.koff = w.value]
    [] w.register = "master" -> [d EXCEPT !.master = w.value]
    [] w.register = "dir" -> [d EXCEPT !.dir = w.value]
    [] w.register = "v_vol" -> [d EXCEPT !.v_vol[w.channel] = w.value]
    [] w.register = "v_srcn" -> [d EXCEPT !.v_srcn[w.channel] = w.value]

(* A voice that is keyed off and on is keyed off at the next poll.         *)
Poll(d) ==
  LET kon == d.new_kon \ d.kon
  IN  [d EXCEPT !.new_kon = kon, !.kon = kon,
         !.voice = [c \in Channels |-> IF c \in kon THEN d.v_srcn[c]
                                       ELSE IF c \in d.koff THEN None ELSE @[c]]]

RunClocks(d, n) ==
  LET polled[k \in 0 .. n] == IF k = 0 THEN d ELSE Poll(polled[k - 1]) IN polled[n]

-----------------------------------------------------------------------------
(* reload_samples(), up to its loop, for the channels ds and the document  *)
(* doc.  The chip is reset at once, the writes wait in the queue.          *)
ReloadSamples(doc, ds, after) ==
  /\ pc' = "loading"
  /\ after_load' = after
  /\ dsp' = ResetDsp
  /\ late' = (accum > 0 \/ \E k \in DOMAIN writes : writes[k].time_before > 0)
  /\ loader' = BeginLoad(doc.samples)
  /\ WriteAll(RestoreState(ds))

(* OverallSynth() has reloaded the samples when the callbacks start.       *)
InitChip ==
  /\ Init
  /\ pc = "loading"
  /\ after_load = "commands"
  /\ commands = 0
  /\ samples_modified = FALSE
  /\ drivers = [c \in Channels |-> NewChannelDriver]
  /\ loader = BeginLoad(document.samples)
  /\ writes = [k \in DOMAIN RestoreState(drivers) |->
                 [write |-> RestoreState(drivers)[k], time_before |-> 0]]
  /\ accum = 0
  /\ clocks = 0
  /\ dsp = ResetDsp
  /\ late = FALSE

LoadNextSample ==
  /\ pc = "loading"
  /\ ~LoadEnds(document.samples, loader)
  /\ loader' = LoadSample(document.samples, loader)
  /\ UNCHANGED <<vars, pc, after_load, commands, samples_modified, drivers, writes, accum,
                 clocks, dsp, late>>

EndLoad ==
  /\ pc = "loading"
  /\ LoadEnds(document.samples, loader)
  /\ WriteAll(<<Write("dir", None, TRUE)>>)
  /\ pc' = after_load
  /\ UNCHANGED <<vars, after_load, commands, samples_modified, drivers, loader, clocks, dsp, late>>

-----------------------------------------------------------------------------
(* The commands.                                                           *)

TakeCommand ==
  /\ pc = "commands"
  /\ commands < MaxCommands
  /\ commands' = commands + 1

(* reset_state(), then seek().                                             *)
ChipPlayFrom(t) ==
  /\ TakeCommand
  /\ PlayFrom(t)
  /\ drivers' = [c \in Channels |-> NewChannelDriver]
  /\ ReloadSamples(document, drivers', "commands")
  /\ UNCHANGED <<samples_modified, clocks>>

(* Bug: the driver does not wait for the chip to poll. *)
ChipStopUnwaited ==
  /\ TakeCommand
  /\ StopPlayback
  /\ WriteAll(<<Write("koff", None, Channels)>>)
  /\ UNCHANGED <<pc, after_load, samples_modified, drivers, loader, clocks, dsp, late>>

(* stop_playback() keys all voices off and waits for the chip to poll.     *)
ChipStop ==
  /\ TakeCommand
  /\ StopPlayback
  /\ writes' = Queued(<<Write("koff", None, Channels)>>)
  /\ accum' = 1
  /\ UNCHANGED <<pc, after_load, samples_modified, drivers, loader, clocks, dsp, late>>

(* An edit with ModifiedFlags::Patterns.                                   *)
EditPatterns ==
  /\ TakeCommand
  /\ Edit
  /\ document'.samples = document.samples
  /\ document'.instruments = document.instruments
  /\ UNCHANGED <<pc, after_load, samples_modified, drivers, loader, writes, accum, clocks, dsp,
                 late>>

(* Another edit: flags tell whether it is one with SamplesEdited.          *)
EditSynth(doc, flagged) ==
  /\ TakeCommand
  /\ doc.tracks = document.tracks
  /\ document' = doc
  /\ samples_modified' = (samples_modified \/ flagged)
  /\ played' = [c \in Channels |-> <<>>]
  /\ UNCHANGED <<modified, seqs, times, sounding, held>>
  /\ UNCHANGED <<pc, after_load, drivers, loader, writes, accum, clocks, dsp,
                 late>>

(* Samples are added, removed, replaced and swapped, and the instruments   *)
(* with them.                                                              *)
EditSamples == \E doc \in Documents : EditSynth(doc, TRUE)

(* InstrumentsEdited, which nothing checks.                                *)
EditInstruments ==
  \E doc \in Documents : doc.samples = document.samples /\ EditSynth(doc, FALSE)

(* SampleMetadataEdited, which nothing checks either: the directory keeps  *)
(* the loop point of the last reload.                                      *)
EditLoopByte ==
  \E doc \in Documents, i \in SampleIndex :
    /\ document.samples[i] # None /\ doc.samples[i] # None
    /\ \A j \in SampleIndex : j # i => doc.samples[j] = document.samples[j]
    /\ doc.samples[i].size = document.samples[i].size
    /\ doc.samples[i].brr = document.samples[i].brr
    /\ doc.instruments = document.instruments
    /\ EditSynth(doc, FALSE)

EndCommands ==
  /\ pc = "commands"
  /\ samples_modified' = FALSE
  /\ commands' = 0
  /\ IF samples_modified
       THEN ReloadSamples(document, drivers, "timer")
       ELSE pc' = "timer" /\ UNCHANGED <<after_load, loader, writes, accum, dsp, late>>
  /\ UNCHANGED <<vars, drivers, clocks>>

-----------------------------------------------------------------------------
(* The timer.                                                              *)

RowOf(c, x) ==
  IF x = CutNote THEN [note |-> Cut, instr |-> None, volume |-> None]
  ELSE Track(c)[x[1]].events[x[3]].v

(* Spc700Driver::run_driver() with the events of the channels.             *)
RunSpc700Driver(events) ==
  LET s == [c \in Channels |-> RunEvents(document, loader.ram, c, drivers[c], events[c])]
  IN  /\ drivers' = [c \in Channels |-> s[c].d]
      /\ WriteAll(DriverWrites(s))

StartChip ==
  /\ pc = "timer"
  /\ pc' = "running"
  /\ clocks' = ClocksPerTimer
  /\ UNCHANGED <<after_load, commands, samples_modified, loader, dsp, late>>

TickSequencer ==
  /\ StartChip
  /\ Tick
  /\ RunSpc700Driver([c \in Channels |-> [k \in DOMAIN played'[c] |-> RowOf(c, played'[c][k])]])

RunTimer ==
  /\ StartChip
  /\ RunDriver
  /\ RunSpc700Driver([c \in Channels |-> <<>>])

-----------------------------------------------------------------------------
(* run_chip_for().                                                         *)

(* fetch_next_reg() cuts it down to the end of the tick.                   *)
TimeUntilWrite(w) == Min({w.time_before, clocks})

(* ChipEvent::RegWrite comes first at the end of the tick.                 *)
WriteNextReg ==
  /\ pc = "running"
  /\ writes # <<>>
  /\ LET time == TimeUntilWrite(Head(writes)) IN
       /\ time <= clocks
       /\ dsp' = WriteReg(RunClocks(dsp, time), Head(writes).write)
       /\ clocks' = clocks - time
  /\ writes' = Tail(writes)
  /\ UNCHANGED <<vars, pc, after_load, commands, samples_modified, drivers, loader, accum, late>>

(* ChipEvent::EndOfTick, and flush_register_writes().                      *)
EndOfTick ==
  /\ pc = "running"
  /\ writes # <<>> => TimeUntilWrite(Head(writes)) > clocks
  /\ dsp' = RunClocks(dsp, clocks)
  /\ clocks' = 0
  /\ writes' = <<>>
  /\ accum' = 0
  /\ pc' = "commands"
  /\ UNCHANGED <<vars, after_load, commands, samples_modified, drivers, loader, late>>

ChipNext ==
  \/ \E t \in 0 .. MaxTick : ChipPlayFrom(t)
  \/ ChipStop \/ EditPatterns \/ EditSamples \/ EditInstruments \/ EditLoopByte
  \/ EndCommands
  \/ LoadNextSample \/ EndLoad
  \/ TickSequencer \/ RunTimer
  \/ WriteNextReg \/ EndOfTick

ChipSpec == InitChip /\ [][ChipNext]_all_vars

-----------------------------------------------------------------------------
(* The callback is over, or has only made edits so far.                    *)
Settled == pc = "commands" /\ writes = <<>>

(* A voice only plays a sample that is in the RAM, in a chip that is set   *)
(* up, through reloads, instrument changes under notes and key-ons that    *)
(* wait for a poll of the chip.                                            *)
PlaysLoadedSamples ==
  ~late => \A c \in Channels :
    LET sample == dsp.voice[c] IN
    sample # None =>
      /\ sample \in SampleIndex /\ loader.ram[sample] # None
      /\ dsp.dir /\ dsp.master

(* After each reload the RAM holds the data of samples the document has,   *)
(* also where the driver asserts it (sample_maybe), lays them out behind   *)
(* the directory without overlap, and leaves none out that has room.  The  *)
(* loop points there may be older than those of the document, but lie      *)
(* inside the samples still.                                               *)
RamMatchesDocument ==
  pc # "loading" /\ ~samples_modified =>
    /\ RamLayout(document.samples, loader.ram)
    /\ NothingLeftOut(document.samples, loader.ram)
    /\ \A i \in SampleIndex : loader.ram[i] # None =>
         /\ document.samples[i] # None
         /\ loader.ram[i].brr = document.samples[i].brr

(* The one note of a tick, if no other row comes before it, is what its    *)
(* voice plays when the tick is over, in the instrument of the last row,   *)
(* or it keys its voice off, as a row alone does just when its note cannot *)
(* play.  The volume is the last one there was, also after a reload.       *)
(* (A row before the note may key the voice off: a voice that is keyed off *)
(* and on at one tick is silent.)                                          *)
NotesSound ==
  Settled /\ ~late => \A c \in Channels :
    LET d == drivers[c]
        rows == played[c]
        notes == {k \in DOMAIN rows : HasNote(Track(c), rows[k])}
    IN  /\ dsp.v_vol[c] = d.volume
        /\ notes = {1} =>
             /\ dsp.voice[c] = IF d.playing THEN SampleOf(document, d.instr, d.note) ELSE None
             /\ Len(rows) = 1 =>
                  (d.playing <=> /\ RowOf(c, rows[1]).note # Cut
                                 /\ Playable(document, loader.ram, d.instr, d.note))

(* Once playback is stopped nothing sounds, nor do channels whose notes    *)
(* ended: no key-off is lost to the poll, the end of the tick or a reload. *)
NoHangingNotes ==
  Settled /\ ~late => \A c \in Channels :
    ~Playing \/ ~drivers[c].playing => dsp.voice[c] = None

(* restore_state() on writing r_kon: "If we don't write this, the internal *)
(* m.new_kon is nonzero by default [...] and will trigger key-on on some   *)
(* channels even when we don't process notes" (spc700_driver.cpp).         *)
NoStrayKeyOn ==
  Settled => \A c \in Channels : ~drivers[c].playing => dsp.voice[c] = None
=============================================================================
