--------------------------------- MODULE PcmMap ---------------------------------
(***************************************************************************)
(* The downmix matrix that cOmxAudio::open gives to the audio mixer:       *)
(* cPcmMap (cPcmMap.cpp) is told the input channels and the output layout  *)
(* and follows a table from each input channel to output channels.  Every  *)
(* level of the table is 1.0 and resolveChannel only halves, buildMap      *)
(* divides by the square root of a count: a level is <<halvings, count>>.  *)
(* The program always downmixes with mBoostOnDownmix, which is             *)
(* mDontNormalize: the normalisation of buildMap is left out.  The names   *)
(* are those of enum PCMChannels.                                          *)
(***************************************************************************)
EXTENDS Naturals, Sequences, SequencesExt, FiniteSets, FiniteSetsExt, TLC

CONSTANTS
    ChanMaps, \* the sets of channels an input may have
    Layouts   \* the output layouts

\* the channels in the order of buildChanMap
ChannelOrder == <<"FL", "FR", "FC", "LFE", "BL", "BR", "FLOC", "FROC", "BC", "SL", "SR",
                  "TC", "TFL", "TFC", "TFR", "TBL", "TBC", "TBR">>
Channels == ToSet(ChannelOrder)

\* PCMLayoutMap, and the CEA order of buildChanMapCEA.  Only the layouts of 2, 4 and 8 channels:
\* any other count is rounded up, and the last output channels are then PCM_INVALID.
LayoutMap == [l \in {"2.0", "3.1", "4.0", "7.1"} |->
    CASE l = "2.0" -> {"FL", "FR"}
      [] l = "3.1" -> {"FL", "FR", "FC", "LFE"}
      [] l = "4.0" -> {"FL", "FR", "BL", "BR"}
      [] l = "7.1" -> {"FL", "FR", "FC", "SL", "SR", "BL", "BR", "LFE"}]
BuildChanMap(chanMap) == SelectSeq(ChannelOrder, LAMBDA c : c \in chanMap)
BuildChanMapCEA(layout) ==
    SelectSeq(<<"FL", "FR", "LFE", "FC", "BL", "BR", "SL", "SR">>, LAMBDA c : c \in LayoutMap[layout])

ASSUME LayoutsAssumption == Layouts \subseteq DOMAIN LayoutMap
ASSUME ChanMapsAssumption == \A chanMap \in ChanMaps : chanMap \subseteq Channels /\ Cardinality(chanMap) \in 1..8

\* PCMDownmixTable: <<channel, ifExists>>
To(c) == <<c, FALSE>>
Towards(c) == CASE
       c = "FC"   -> <<To("FLOC"), To("FROC")>>           [] c = "LFE"  -> <<To("FL"), To("FR")>>
    [] c = "BL"   -> <<To("FL")>>                         [] c = "BR"   -> <<To("FR")>>
    [] c = "FLOC" -> <<To("FL"), <<"FC", TRUE>>>>         [] c = "FROC" -> <<To("FR"), <<"FC", TRUE>>>>
    [] c = "BC"   -> <<To("BL"), To("BR")>>               [] c = "SL"   -> <<To("FL"), To("BL")>>
    [] c = "SR"   -> <<To("FR"), To("BR")>>               [] c = "TFL"  -> <<To("FL")>>
    [] c = "TFR"  -> <<To("FR")>>                         [] c = "TFC"  -> <<To("TFL"), To("TFR")>>
    [] c = "TC"   -> <<To("TFL"), To("TFR")>>             [] c = "TBL"  -> <<To("BL")>>
    [] c = "TBR"  -> <<To("BR")>>                         [] c = "TBC"  -> <<To("TBL"), To("TBR")>>
    [] OTHER -> <<>>
DownmixCrossed(c) == IF c = "BR" THEN <<To("FL")>> ELSE Towards(c)
Downmix(c) == Towards(c)

VARIABLES
    phase, chanMap, layout,
    mInMap,    \* the input channels, in order
    mLookupMap, \* output channel -> what is mixed into it
    mCounts,   \* input channel -> the times it was mixed into something
    matrix     \* output -> input position -> level, or Silent
vars == <<phase, chanMap, layout, mInMap, mLookupMap, mCounts, matrix>>

Silent == <<0, 0>>

Init ==
    /\ phase = "reset" /\ chanMap \in ChanMaps
    \* open forces stereo on a mono or stereo input
    /\ layout \in IF chanMap \in {{"FL", "FR"}, {"FC"}} THEN {"2.0"} ELSE Layouts
    /\ mInMap = <<>> /\ mLookupMap = <<>> /\ mCounts = <<>> /\ matrix = <<>>

(***************************************************************************)
(* resolveChannel and resolveChannels.                                     *)
(***************************************************************************)
\* the channels the table sends c on to, without those that were followed to get to it
FirstOnly(c, path) == SubSeq(SelectSeq(Downmix(c), LAMBDA d : d[1] \notin path), 1, 1)
Onward(c, path) == SelectSeq(Downmix(c), LAMBDA d : d[1] \notin path)

RECURSIVE ResolveChannel(_, _, _, _, _)
ResolveChannel(c, halvings, ifExists, path, useable) ==
    IF c \in useable THEN <<<<c, halvings>>>>
    ELSE LET h == IF ifExists THEN halvings + 1 ELSE halvings
             next == Onward(c, path)
         IN  FlattenSeq([i \in DOMAIN next |-> ResolveChannel(next[i][1], h, next[i][2], path \cup {c}, useable)])

\* mono goes to front left and front right, not to the centre
Useable(inMap, channels) ==
    IF inMap = <<"FC">> /\ {"FL", "FR"} \subseteq channels THEN channels \ {"FC", "FLOC", "FROC"} ELSE channels

\* side channels take the place of back channels that the input does not have
NoBack(inMap) == ToSet(inMap) \cap {"BL", "BR"} = {}
SidesToBack(inMap, useable) ==
    IF ToSet(inMap) \cap {"SL", "SR"} # {} /\ NoBack(inMap) /\ ~({"SL", "SR"} \subseteq useable)
    THEN [i \in DOMAIN inMap |-> CASE inMap[i] = "SL" -> "BL" [] inMap[i] = "SR" -> "BR" [] OTHER -> inMap[i]]
    ELSE inMap

\* what input i is mixed into, in the order of its table
Table(inMap, useable, i) == ResolveChannel(inMap[i], 0, FALSE, {}, useable)

Lookup(inMap, useable) ==
    [o \in Channels |-> FlattenSeq([i \in DOMAIN inMap |->
        LET row == SelectSeq(Table(inMap, useable, i), LAMBDA e : e[1] = o)
        IN  [k \in DOMAIN row |-> [channel |-> inMap[i], in |-> i, halvings |-> row[k][2]]]])]

Counts(inMap, useable) ==
    [c \in Channels |-> FoldSet(LAMBDA i, n : n + Len(Table(inMap, useable, i)), 0,
                                {i \in DOMAIN inMap : inMap[i] = c})]

ResolveChannels(channels) ==
    LET inMap == IF phase = "reset" THEN BuildChanMap(chanMap) ELSE mInMap
        useable == Useable(inMap, channels)
    IN  /\ mInMap' = SidesToBack(inMap, useable)
        /\ mLookupMap' = Lookup(mInMap', useable)
        /\ mCounts' = Counts(mInMap', useable)

(***************************************************************************)
(* The three calls of cOmxAudio::open.                                     *)
(***************************************************************************)
\* with no output yet resolveChannels takes the whole layout for useable
SetInputFormat ==
    /\ phase = "reset" /\ phase' = "input"
    /\ ResolveChannels(LayoutMap[layout])
    /\ UNCHANGED <<chanMap, layout, matrix>>

SetOutputFormat ==
    /\ phase = "input" /\ phase' = "output"
    /\ ResolveChannels(LayoutMap[layout] \cap ToSet(BuildChanMapCEA(layout)))
    /\ UNCHANGED <<chanMap, layout, matrix>>

\* buildMap's RMS level of an entry
Level(entry) == <<entry.halvings, mCounts[entry.channel]>>

\* an entry for an input that the row has already replaces it
Row(o) ==
    [i \in 1..8 |-> LET of == SelectSeq(mLookupMap[o], LAMBDA e : e.in = i)
                    IN  IF of = <<>> THEN Silent ELSE Level(of[Len(of)])]

GetDownmixMatrix ==
    /\ phase = "output" /\ phase' = "done"
    /\ matrix' = [o \in ToSet(BuildChanMapCEA(layout)) |-> Row(o)]
    /\ UNCHANGED <<chanMap, layout, mInMap, mLookupMap, mCounts>>

Next == SetInputFormat \/ SetOutputFormat \/ GetDownmixMatrix

Spec == Init /\ [][Next]_vars

(***************************************************************************)
(* Properties.                                                             *)
(***************************************************************************)
Inputs == DOMAIN mInMap
Outputs == DOMAIN matrix
Heard(o, i) == matrix[o][i] # Silent

\* The variables keep their types: no channel is in the input map twice, and the rows of mLookupMap
\* and their terminators fit in arrays of PCM_MAX_CH + 1 entries.
TypeOK ==
    /\ phase \in {"reset", "input", "output", "done"}
    /\ IsInjective(mInMap) /\ ToSet(mInMap) \subseteq Channels
    /\ phase # "reset" => \A o \in Channels : Len(mLookupMap[o]) <= 18 /\ mCounts[o] \in 0..18
    /\ \A o \in Outputs : \A i \in 1..8 : i \notin Inputs => ~Heard(o, i)

\* The outputs that the table leads to from channel c without passing through an output.
RECURSIVE Reach(_)
Reach(channels) ==
    LET further == channels \cup UNION {{d[1] : d \in ToSet(Downmix(c))} : c \in channels \ Outputs}
    IN  IF further = channels THEN channels \cap Outputs ELSE Reach(further)

\* resolveChannel, which avoids only the channels on its own path, finds every output that the
\* table leads to, and no other; so no channel of the input is lost in the downmix.
FindsAll ==
    /\ TypeOK
    /\ phase = "done" =>
         \A i \in Inputs :
             LET heard == {o \in Outputs : Heard(o, i)}
             IN  heard = Reach({mInMap[i]}) /\ heard # {}

\* An input channel never has more power in the output than it had: its squared levels add up to
\* 1 at most, in units of 13440 = 16 * lcm (1..8).
Power(level) == IF level = Silent THEN 0 ELSE 13440 \div (4 ^ level[1] * level[2])
InputPower(i) == FoldSet(LAMBDA o, p : p + Power(matrix[o][i]), 0, Outputs)
NoAmplification == phase = "done" => \A i \in Inputs : InputPower(i) <= 13440

\* Left and right are treated alike: in an input as symmetric as its output, a left channel is
\* heard on the left as loud as its counterpart on the right.
Mirror(c) == CASE c = "FL" -> "FR" [] c = "FR" -> "FL" [] c = "BL" -> "BR" [] c = "BR" -> "BL"
    [] c = "SL" -> "SR" [] c = "SR" -> "SL" [] c = "FLOC" -> "FROC" [] c = "FROC" -> "FLOC"
    [] c = "TFL" -> "TFR" [] c = "TFR" -> "TFL" [] c = "TBL" -> "TBR" [] c = "TBR" -> "TBL" [] OTHER -> c
Symmetric ==
    phase = "done" /\ {Mirror(c) : c \in ToSet(mInMap)} = ToSet(mInMap) =>
        \A o \in Outputs : \A i, j \in Inputs :
            mInMap[j] = Mirror(mInMap[i]) => matrix[Mirror(o)][j] = matrix[o][i]

\* The levels are balanced: no channel comes out louder than it went in, and left and right alike.
Balanced == NoAmplification /\ Symmetric
================================================================================
