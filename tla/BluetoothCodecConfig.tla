--------------------------- MODULE BluetoothCodecConfig ---------------------------
(***************************************************************************)
(* The configuration of an A2DP codec (BluetoothCodecConfig.hpp, .cpp): a  *)
(* value compared, exactly and with wildcards, and shown as a text.  Two   *)
(* configurations live side by side and are set by the class's methods.    *)
(* The four specific numbers are one, and the sets of rates, of sample     *)
(* sizes and of channels are numbers whose bits are the members.           *)
(***************************************************************************)
EXTENDS Integers, Sequences, FiniteSets

CONSTANTS
  CodecTypes,    \* SourceCodecType
  Masks,         \* sets of sample rates, as bit masks
  SmallMasks     \* sets of sample sizes and of channel modes

ASSUME CodecAssumption == Masks \subseteq 0..63 /\ SmallMasks \subseteq 0..3

VARIABLES mine, other     \* two objects of the class

codecVars == <<mine, other>>

SOURCE_CODEC_TYPE_INVALID == 1000000
CODEC_PRIORITY_DISABLED == -1
CODEC_PRIORITY_DEFAULT  == 0
-----------------------------------------------------------------------------
Configuration(codecType, priority, rates, bits, channels, specific) ==
  [codecType |-> codecType, priority |-> priority, sampleRate |-> rates, bitsPerSample |-> bits,
   channelMode |-> channels, specific |-> specific]

\* The default constructor.
Default(codecType) == Configuration(codecType, CODEC_PRIORITY_DEFAULT, 0, 0, 0, 0)

\* clear: a cleared configuration is not a default one, its priority differs.
Cleared == Configuration(SOURCE_CODEC_TYPE_INVALID, CODEC_PRIORITY_DISABLED, 0, 0, 0, 0)

\* 0x1 << 0 up to 0x1 << 5, and two numbers that have one of them in common:
\* the & of the code is not zero.
Bit == <<1, 2, 4, 8, 16, 32>>
Bits(n) == {i \in 1..6 : (n \div Bit[i]) % 2 = 1}
CommonBit(m, n) == Bits(m) \cap Bits(n) # {}

hasSingleBit(set) == set = 0 \/ ~CommonBit(set, set - 1)

sameAudioFeedingParameters(a, b) ==
  a.sampleRate = b.sampleRate /\ a.bitsPerSample = b.bitsPerSample /\ a.channelMode = b.channelMode

\* What is compared with ours: their value, or ours when either is NONE.
Feeding(ours, theirs) == IF ours = 0 \/ theirs = 0 THEN ours ELSE theirs

similarCodecFeedingParameters(a, b) ==
  /\ a.codecType = b.codecType
  /\ sameAudioFeedingParameters(a,
       Configuration(a.codecType, 0, Feeding(a.sampleRate, b.sampleRate),
                     Feeding(a.bitsPerSample, b.bitsPerSample),
                     Feeding(a.channelMode, b.channelMode), 0))

\* Only AAC (1) and LDAC (4) have specific parameters that are compared.
sameCodecSpecificParameters(a, b) ==
  a.codecType = b.codecType /\ (a.codecType \in {1, 4} => a.specific = b.specific)

\* The names of a set's members, which appendCapabilityToString joins in this
\* order.
Capabilities(set, names) ==
  IF set = 0 THEN {"NONE"}
  ELSE {names[i] : i \in {i \in DOMAIN names : CommonBit(set, Bit[i])}}

SampleRates == <<"44100", "48000", "88200", "96000", "176400", "192000">>

\* The part of toString that is not a plain number: what hashCode tells apart
\* is the whole text.
RatesText(config) == Capabilities(config.sampleRate, SampleRates)
-----------------------------------------------------------------------------
CodecInit == mine = Default(SOURCE_CODEC_TYPE_INVALID) /\ other = Default(SOURCE_CODEC_TYPE_INVALID)

Assign(type, rates, bits, channels, specific) ==
  /\ mine = Default(SOURCE_CODEC_TYPE_INVALID)
  /\ mine' = Configuration(type, CODEC_PRIORITY_DEFAULT, rates, bits, channels, specific)
  /\ UNCHANGED other

\* CopyFrom, the copy constructor and operator=, then one respect changed or none.
CopyAndChange(config) ==
  /\ other = Default(SOURCE_CODEC_TYPE_INVALID)
  /\ other' = config
  /\ UNCHANGED mine

Clear == /\ other # Cleared /\ other' = Cleared
         /\ UNCHANGED mine

\* The configurations a copy of this one may be changed to.
Variants(c) ==
  {c} \cup {[c EXCEPT !.sampleRate = m] : m \in Masks}
      \cup {[c EXCEPT !.bitsPerSample = m] : m \in SmallMasks}
      \cup {[c EXCEPT !.channelMode = m] : m \in SmallMasks}
      \cup {[c EXCEPT !.codecType = t] : t \in CodecTypes}
      \cup {[c EXCEPT !.specific = 1 - @]}

CodecNext ==
  \/ \E type \in CodecTypes, rates \in Masks, bits, channels \in SmallMasks, specific \in {0, 1} :
       Assign(type, rates, bits, channels, specific)
  \/ \E config \in Variants(mine) : CopyAndChange(config)
  \/ Clear
-----------------------------------------------------------------------------
\* "Any parameters with NONE value will be considered to be a wildcard
\* matching": whichever of the two has it (similarCodecFeedingParameters); the
\* same specific parameters are the same from either side.
SimilarIsMutual ==
  /\ similarCodecFeedingParameters(mine, other) <=> similarCodecFeedingParameters(other, mine)
  /\ similarCodecFeedingParameters(mine, other) <=>
       mine.codecType = other.codecType
       /\ \A field \in {"sampleRate", "bitsPerSample", "channelMode"} :
            0 \in {mine[field], other[field]} \/ mine[field] = other[field]
  /\ sameCodecSpecificParameters(mine, other) <=> sameCodecSpecificParameters(other, mine)

\* The text tells two sets of rates apart, and shows one rate, or NONE, exactly
\* when hasSingleSampleRate says so (toString, on which hashCode rests).
TextTellsRates ==
  /\ RatesText(mine) = RatesText(other) => mine.sampleRate = other.sampleRate
  /\ hasSingleBit(mine.sampleRate) <=> Cardinality(RatesText(mine)) = 1
=============================================================================
