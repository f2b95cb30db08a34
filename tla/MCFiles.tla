------------------------------- MODULE MCFiles -------------------------------
(***************************************************************************)
(* Two paths, which hold modules that another program wrote or files that  *)
(* cannot be loaded.  The foreign modules have lists that are too long or  *)
(* too short and values on both sides of their ranges.  All the sequencer  *)
(* options are loaded alike; one stands for them.                          *)
(***************************************************************************)
EXTENDS Files

CONSTANTS p1, p2

MCPaths == {p1, p2}

MCOptionRange ==
  [target_tempo |-> [min |-> 1, max |-> 999]]

MCEqualTemperament == <<8, 16>>

Sample(loop_byte, rate, key) ==
  [brr_size |-> 18, loop_byte |-> loop_byte, sample_rate |-> rate, root_key |-> key]

MCNewSample == Sample(9, 16000, 1)

Event(tick, effects) == [anchor_tick |-> tick, effects |-> effects]
Effect(value) == [name |-> <<1, 2>>, value |-> value]
Block(begin, count, length, events) ==
  [begin_tick |-> begin, loop_count |-> count, length_ticks |-> length, events |-> events]
Track(col, blocks) == [n_effect_col |-> col, blocks |-> blocks]

MCNewBlock == Block(0, 1, 2, <<Event(0, <<None, None>>)>>)

MCNewDocument ==
  [options |-> [target_tempo |-> 150],
   frequency_table |-> MCEqualTemperament,
   accidental_mode |-> "Sharp", effect_name_chars |-> 1,
   samples |-> <<MCNewSample, None>>,
   instruments |-> <<<<[min_note |-> 0, attack_rate |-> 15]>>>>,
   chips |-> <<"SPC700">>,
   sequence |-> <<<<Track(1, <<>>)>>>>]

File == Saved(MCNewDocument, 12)

Values ==
  [File EXCEPT
     !.options = [target_tempo |-> 0],
     !.frequency_table = <<4, -1, 5>>,
     !.accidental_mode = "Unknown", !.effect_name_chars = 0,
     !.samples = <<Sample(18, 1000000, 2), None, Sample(0, 0, 0)>>,
     !.instruments = <<<<[min_note |-> 2, attack_rate |-> 16],
                         [min_note |-> 1, attack_rate |-> 3],
                         [min_note |-> 0, attack_rate |-> 0]>>>>,
     !.ticks_per_row = 0]

Events ==
  [File EXCEPT
     !.frequency_table = <<>>,
     !.sequence = <<<<Track(0, <<
        Block(0, 1, 4, <<Event(9, <<Effect(1), [name |-> <<0, 0>>, value |-> 7], Effect(2)>>),
                         Event(1, <<Effect(3)>>), Event(9, <<>>)>>)>>)>>>>,
     !.ticks_per_row = 96]

TooLong == [File EXCEPT !.sequence = <<<<Track(1, <<Block(2, 2, 4, <<>>)>>)>>>>]
TooManyChips == [File EXCEPT !.chips = <<"SPC700", "SPC700">>]
UnknownChip == [File EXCEPT !.chips = <<"Unknown">>]
NoChannels == [File EXCEPT !.sequence = <<<<>>>>]

MCInitialDisks ==
  {p1 :> files[1] @@ p2 :> files[2] :
     files \in {<<Values, TooManyChips>>, <<Events, Corrupt>>,
                <<TooLong, UnknownChip>>, <<NoChannels, Unrecognized>>}}
=============================================================================
