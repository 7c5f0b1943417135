------------------------------ MODULE Airtime ------------------------------
(***************************************************************************)
(* The LoRa airtime model (internal/airtime).  Every bandwidth of the      *)
(* preset table divides 1 MHz, so a frame lasts a whole number of          *)
(* microseconds and the code's floating-point sums are integers here: an   *)
(* utilization is kept as microseconds on air per minute, never rounded.   *)
(***************************************************************************)
EXTENDS Integers

LoRa(sf, bw, cr) == [spreadingFactor |-> sf, bandwidthHz |-> bw, codingRate |-> cr]

meshtasticPresets ==
  [ SHORT_TURBO   |-> LoRa(7, 500000, 5),  SHORT_FAST |-> LoRa(7, 250000, 5),
    SHORT_SLOW    |-> LoRa(8, 250000, 5),  MEDIUM_FAST |-> LoRa(9, 250000, 5),
    MEDIUM_SLOW   |-> LoRa(10, 250000, 5), LONG_FAST |-> LoRa(11, 250000, 5),
    LONG_MODERATE |-> LoRa(11, 125000, 8), LONG_SLOW |-> LoRa(12, 125000, 8) ]

KnownPresets == DOMAIN meshtasticPresets

RepresentativeFramePayloadBytes == 40
MeshFrameHeaderBytes == 16
RecommendedChannelUtilizationPercent == 25
MinuteMicros == 60000000

SymbolMicros(p) == 2^p.spreadingFactor * (1000000 \div p.bandwidthHz)

\* Mandated when a symbol lasts at least 16 ms.
LowDataRate(p) == IF SymbolMicros(p) >= 16000 THEN 1 ELSE 0

\* Mutant: integer division, which drops the last, partly filled block.
Floored(a, b) == a \div b

Ceiling(a, b) == -((-a) \div b)

\* Explicit header and CRC on, as PresetTimeOnAir asks.
PayloadSymbols(p, bytes) ==
  LET bits == 8 * bytes - 4 * p.spreadingFactor + 28 + 16
      blocks == Ceiling(bits, 4 * (p.spreadingFactor - 2 * LowDataRate(p)))
  IN  8 + IF blocks > 0 THEN blocks * p.codingRate ELSE 0

\* The 16-symbol preamble lasts 20.25 symbols.
TimeOnAir(p, bytes) == ((81 + 4 * PayloadSymbols(p, bytes)) * SymbolMicros(p)) \div 4

\* Mutant: the rate per node taken for the rate of the fleet.
FleetAirtimeOfSharedRate(preset, nodeCount, rate, payload) ==
  IF nodeCount <= 0 \/ rate <= 0 THEN 0
  ELSE nodeCount * (rate \div nodeCount) * TimeOnAir(meshtasticPresets[preset], payload + MeshFrameHeaderBytes)

\* FleetChannelUtilizationPercent in microseconds on air per minute; the header is added to a payload that is present.
FleetAirtime(preset, nodeCount, rate, payload) ==
  LET phyBytes == IF payload > 0 THEN payload + MeshFrameHeaderBytes ELSE payload
  IN  IF nodeCount <= 0 \/ rate <= 0 THEN 0
      ELSE nodeCount * rate * TimeOnAir(meshtasticPresets[preset], phyBytes)

OnePercentMicros == MinuteMicros \div 100

WithinChannelBudget(airtime) ==
  airtime <= RecommendedChannelUtilizationPercent * OnePercentMicros

\* math.Round of the percentage: half a percent goes up.
RoundedPercent(airtime) == (airtime + OnePercentMicros \div 2) \div OnePercentMicros
=============================================================================
