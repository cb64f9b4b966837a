----------------------------- MODULE Conversions -----------------------------
(***************************************************************************)
(* The program's pure functions, compared with what they are for: the bits *)
(* and the CRC of a DS18B20, its temperature, the calibration of a BME280  *)
(* and its compensation of temperature and humidity, the header scanning   *)
(* of an HTTP response, and the search for the address of the PHY.  A      *)
(* behaviour is one call: the next-state relation picks the function and   *)
(* its argument.                                                           *)
(*                                                                         *)
(* Characters are members of a small alphabet in which "n" stands for the  *)
(* name of the header looked for, and "N" for the same in capitals.        *)
(***************************************************************************)
EXTENDS Integers, SequencesExt

CONSTANTS
  Scratchpads,    \* scratchpads as sensors send them: nine bytes with their CRC
  Calibrations,   \* trimming values of BME280s
  MaxText,        \* bound: the length of the headers
  MaxDigits,      \* bound: the length of a Content-Length
  HTTP_MAX_RESPONSE_LEN,
  LAN8742_MAX_DEV_ADDR

VARIABLE call     \* the function called and its argument
vars == <<call>>

(***************************************************************************)
(* C's arithmetic.                                                         *)
(***************************************************************************)
int16(n) == ((n + 2^15) % 2^16) - 2^15
Quotient(a, b) == IF a >= 0 THEN a \div b ELSE -((-a) \div b)

(***************************************************************************)
(* DS18B20: every bit is a UART byte, the least significant bit first.     *)
(***************************************************************************)
Bits(byte) == [i \in 1 .. 8 |-> (byte \div 2^(i - 1)) % 2]
AllBits(bytes) == FlattenSeq([i \in DOMAIN bytes |-> Bits(bytes[i])])

HIGH_BIT_THRESHOLD == 255
encodeByte(byte) == [i \in 1 .. 8 |-> IF Bits(byte)[i] = 1 THEN 255 ELSE 0]
decodeByte(frame) ==
  FoldLeftDomain(LAMBDA value, i : value + (IF frame[i] >= HIGH_BIT_THRESHOLD THEN 2^(i - 1) ELSE 0),
                 0, frame)

\* A sensor that sends a zero shortens the pulse; how far is up to the line.
Slot(bit, low) == IF bit = 1 THEN 255 ELSE low

Toggle(n, bit) == IF (n \div bit) % 2 = 1 THEN n - bit ELSE n + bit
XorPolynomial(crc) == Toggle(Toggle(Toggle(crc, 128), 8), 4)     \* CRC_POLYNOMIAL, 0x8C

CrcStep(crc, bit) ==
  LET shifted == crc \div 2
  IN  IF (crc + bit) % 2 = 1 THEN XorPolynomial(shifted) ELSE shifted

calculateCrc(bits) ==
  LET Crc[n \in 0 .. Len(bits)] == IF n = 0 THEN 0 ELSE CrcStep(Crc[n - 1], bits[n])
  IN  Crc[Len(bits)]

crcAccepts(bits) == Bits(calculateCrc(SubSeq(bits, 1, 64))) = SubSeq(bits, 65, 72)

INVALID_TEMP == 32767

\* Mistake: the product is narrowed, not the quotient.
centiNarrowedEarly(raw) == Quotient(int16(raw * 100), 16)

centiDegrees(raw) == int16(Quotient(raw * 100, 16))

(***************************************************************************)
(* BME280: dig_H4 and dig_H5, twelve bits each, share the byte at 0xE5.    *)
(***************************************************************************)
\* value has twelve bits; 0xF000 is added to a negative one.
signExtend12(value) == int16(IF value >= 2048 THEN value + 61440 ELSE value)
digH4(calib) == signExtend12((calib[1] * 16) + (calib[2] % 16))
digH5(calib) == signExtend12((calib[3] * 16) + (calib[2] \div 16))

\* How the sensor lays the two out, in the bytes at 0xE4, 0xE5 and 0xE6.
Packed(h4, h5) ==
  LET u4 == h4 % 4096  u5 == h5 % 4096
  IN  <<u4 \div 16, ((u5 % 16) * 16) + (u4 % 16), u5 \div 16>>

(* The compensation is int32_t arithmetic: the model checker's integers    *)
(* have this width and do not wrap, so an intermediate result that does    *)
(* not fit ends the run with an error.  shr is >> of a signed value.       *)
shr(n, bits) == n \div 2^bits

TempFine(c, adc) ==
  LET fine == shr(adc, 4) - c.T1
  IN  shr((shr(adc, 3) - 2 * c.T1) * c.T2, 11) + shr(shr(fine * fine, 12) * c.T3, 14)

convertTemperature(c, adc) == shr(TempFine(c, adc) * 5 + 128, 8)

HUM_MAX == 419430400

convertHumidity(c, tempFine, adc) ==
  LET t      == tempFine - 76800
      offset == shr(adc * 2^14 - c.H4 * 2^20 - c.H5 * t + 16384, 15)
      warmth == shr(shr(t * c.H6, 10) * (shr(t * c.H3, 11) + 32768), 10) + 2097152
      linear == offset * shr(warmth * c.H2 + 8192, 14)
      bent   == linear - shr(shr(shr(linear, 15) * shr(linear, 15), 7) * c.H1, 4)
  IN  (shr(Min({Max({bent, 0}), HUM_MAX}), 12) * 100) \div 1024

(***************************************************************************)
(* HTTP: a range is from begin to before end; 0 is the null pointer.       *)
(***************************************************************************)
toLowerAscii(char) == IF char = "N" THEN "n" ELSE char
Blank == {" ", "\t"}

findSeparatorInRange(text, begin, end, pattern) ==
  LET matches == {c \in begin .. end - Len(pattern) : SubSeq(text, c, c + Len(pattern) - 1) = pattern}
  IN  IF matches = {} THEN 0 ELSE Min(matches)

equalsIgnoreCase(left, right) ==
  /\ Len(left) = Len(right)
  /\ \A i \in DOMAIN left : toLowerAscii(left[i]) = toLowerAscii(right[i])

\* First the blanks in front, then those behind what is left.
trimHeaderValue(text, begin, end) ==
  LET first == Min({end} \union {c \in begin .. end - 1 : text[c] \notin Blank})
      last  == Max({first} \union {c \in first + 1 .. end : text[c - 1] \notin Blank})
  IN  [begin |-> first, end |-> last]

CRLF == <<"\r", "\n">>
NotFound == [begin |-> 0, end |-> 0]

findHeaderValue(text, begin, end, name) ==
  LET Scan[lineStart \in begin .. end + Len(CRLF)] ==
        LET separator == findSeparatorInRange(text, lineStart, end, CRLF)
            lineEnd   == IF separator = 0 THEN end ELSE separator
            colon     == findSeparatorInRange(text, lineStart, lineEnd, <<":">>)
        IN  IF lineStart >= end THEN NotFound
            ELSE IF colon # 0 /\ equalsIgnoreCase(SubSeq(text, lineStart, colon - 1), name)
              THEN trimHeaderValue(text, colon + 1, lineEnd)
            ELSE IF lineEnd = end THEN NotFound ELSE Scan[lineEnd + Len(CRLF)]
  IN  Scan[begin]

\* Characters above 9 are not digits; -1 is the answer false.
parseContentLength(chars) ==
  IF chars = <<>> THEN -1
  ELSE FoldLeft(LAMBDA value, digit :
                  IF value = -1 \/ digit > 9 \/ value > (HTTP_MAX_RESPONSE_LEN - digit) \div 10
                    THEN -1 ELSE value * 10 + digit,
                0, chars)

(***************************************************************************)
(* LAN8742_Init: the special mode register is read at one address after    *)
(* the other (smr[a] is the address it holds, -1 if the read fails) until  *)
(* one answers with its own.                                               *)
(***************************************************************************)
LAN8742_Init(smr) ==
  LET Nobody == LAN8742_MAX_DEV_ADDR + 1
      Try(found, addr) ==
        IF found.DevAddr # Nobody THEN found
        ELSE IF smr[addr] = -1 THEN [found EXCEPT !.status = "READ_ERROR"]
        ELSE IF smr[addr] = addr THEN [DevAddr |-> addr, status |-> "OK"]
        ELSE found
      found == FoldLeft(Try, [DevAddr |-> Nobody, status |-> "OK"],
                        [i \in 1 .. Nobody |-> i - 1])
  IN  IF found.DevAddr = Nobody THEN [found EXCEPT !.status = "ADDRESS_ERROR"] ELSE found

(***************************************************************************)
(* The calls.                                                              *)
(***************************************************************************)
Init == call = [of |-> "nothing"]
Called(of) == call.of = of

Begin(argument) == call' = argument

\* A scratchpad in which the noise turned some of the bits of one burst over.
ScratchpadRead ==
  \E bytes \in Scratchpads, from \in 1 .. 72, far \in 0 .. 71, inside \in 0 .. 63 :
    /\ from + far <= 72 /\ (far > 7 => inside = 0)
    /\ Begin([of |-> "crc", bytes |-> bytes,
              flipped |-> {from, from + far}
                          \union {from + k : k \in {k \in 1 .. far - 1 : k < 7 /\ Bits(inside)[k] = 1}}])

ByteRead == \E byte \in 0 .. 255, low \in {0, 128, 254} :
              Begin([of |-> "byte", byte |-> byte, low |-> low])

TemperatureConverted == \E raw \in -880 .. 2000 : Begin([of |-> "centi", raw |-> raw])

CalibrationRead == \E h4, h5 \in {-2048, -2047, -1, 0, 1, 15, 16, 329, 2047} :
                     Begin([of |-> "calibration", h4 |-> h4, h5 |-> h5])

Converted(c, t, h) == Begin([of |-> "bme280", calib |-> c, adcT |-> t, adcH |-> h])

MeasurementConverted ==
  \E c \in Calibrations :
    \/ \E k \in 0 .. 2^10 - 2 : Converted(c, k * 2^10, 0)
    \/ \E k \in 0 .. 2^8 - 2, t \in {0, 2^19, 2^20 - 2^10} : Converted(c, t, k * 2^8)

HeadersScanned == \E n \in 0 .. MaxText : \E text \in [1 .. n -> {"\r", "\n", ":", " ", "n", "N"}] :
                    Begin([of |-> "header", text |-> text])

LengthParsed == \E n \in 0 .. MaxDigits : \E chars \in [1 .. n -> 0 .. 10] :
                  Begin([of |-> "length", chars |-> chars])

PhySearched == \E smr \in [0 .. LAN8742_MAX_DEV_ADDR -> -1 .. LAN8742_MAX_DEV_ADDR] :
                 Begin([of |-> "phy", smr |-> smr])

Next ==
  /\ Called("nothing")
  /\ \/ ScratchpadRead \/ ByteRead \/ TemperatureConverted
     \/ CalibrationRead \/ MeasurementConverted \/ HeadersScanned \/ LengthParsed \/ PhySearched

Spec == Init /\ [][Next]_vars

(***************************************************************************)
(* What the functions are for.                                             *)
(***************************************************************************)
\* A scratchpad with one or two wrong bits, or with a burst of up to eight, is
\* not published: the CRC refuses it, and accepts the one that was sent.
NoiseDetected ==
  Called("crc") =>
    LET sent == AllBits(call.bytes)
        read == [i \in 1 .. 72 |-> IF i \in call.flipped THEN 1 - sent[i] ELSE sent[i]]
    IN  crcAccepts(sent) /\ ~crcAccepts(read)

\* What encodeByte writes reads back as the byte, and so does a byte whose
\* zeros the sensor draws out as little as one sample of the slot.
BytesExact ==
  Called("byte") =>
    /\ decodeByte(encodeByte(call.byte)) = call.byte
    /\ decodeByte([i \in 1 .. 8 |-> Slot(Bits(call.byte)[i], call.low)]) = call.byte

\* Over the sensor's range of -55 to 125 degrees the temperature is exact to the
\* hundredth, rounded towards zero, and never the sentinel.
TemperatureExact ==
  Called("centi") =>
    LET centi == centiDegrees(call.raw)
        error == call.raw * 100 - centi * 16
    IN  /\ centi # INVALID_TEMP
        /\ IF call.raw < 0 THEN error \in -15 .. 0 ELSE error \in 0 .. 15

\* Both trimming values come out of the three bytes as the sensor holds them.
CalibrationExact ==
  Called("calibration") =>
    LET calib == Packed(call.h4, call.h5)
    IN  digH4(calib) = call.h4 /\ digH5(calib) = call.h5

\* Over the whole range of the converters, with the intermediate results in 32
\* bits: a warmer sensor reads warmer, by the sensor's quarter to half a degree
\* for 2^10 counts; a moister one reads no drier; and humidity is a percentage.
CompensationMonotone ==
  Called("bme280") =>
    LET c == call.calib
        Temperature(adc) == convertTemperature(c, adc)
        Humidity(adc) == convertHumidity(c, TempFine(c, call.adcT), adc)
    IN  /\ call.adcT < 2^20 - 2^10 =>
             Temperature(call.adcT + 2^10) - Temperature(call.adcT) \in 25 .. 50
        /\ Humidity(call.adcH) <= Humidity(call.adcH + 2^8)
        /\ Humidity(call.adcH) \in 0 .. 10000

\* The lines of a text that ends before its closing CRLF.
Lines(text) ==
  LET breaks == {c \in 1 .. Len(text) - 1 : SubSeq(text, c, c + 1) = CRLF}
      starts == {1} \union {c + 2 : c \in breaks}
  IN  {<<s, Min({Len(text) + 1} \union {c \in breaks : c >= s})>> : s \in starts}

IsHeader(text, line) ==
  /\ line[2] - line[1] >= 2
  /\ text[line[1]] \in {"n", "N"} /\ text[line[1] + 1] = ":"

\* The value found is that of the first line that carries the name, without the
\* blanks around it, and is found in whatever case and wherever the line stands.
HeaderExact ==
  Called("header") =>
    LET found   == findHeaderValue(call.text, 1, Len(call.text) + 1, <<"n">>)
        value   == SubSeq(call.text, found.begin, found.end - 1)
        headers == {line \in Lines(call.text) : IsHeader(call.text, line)}
        first   == CHOOSE line \in headers : \A other \in headers : line[1] <= other[1]
    IN  IF headers = {} THEN found = NotFound
        ELSE /\ first[1] + 2 <= found.begin /\ found.begin <= found.end /\ found.end <= first[2]
             /\ value # <<>> => Head(value) \notin Blank /\ Last(value) \notin Blank
             /\ \A c \in first[1] + 2 .. first[2] - 1 :
                  c \notin found.begin .. found.end - 1 => call.text[c] \in Blank

\* A length is accepted if and only if it is a number that the buffer can hold,
\* and then it is that number.
LengthExact ==
  Called("length") =>
    LET digits == call.chars
        number == FoldLeft(LAMBDA n, d : n * 10 + d, 0, digits)
        good   == digits # <<>> /\ (\A i \in DOMAIN digits : digits[i] <= 9)
                  /\ number <= HTTP_MAX_RESPONSE_LEN
    IN  parseContentLength(digits) = IF good THEN number ELSE -1

\* The PHY is found at the first address that answers with itself, whatever the
\* addresses before it answer, and only if there is one.
PhyFound ==
  Called("phy") =>
    LET own   == {addr \in DOMAIN call.smr : call.smr[addr] = addr}
        found == LAN8742_Init(call.smr)
    IN  /\ found.status = "OK" <=> own # {}
        /\ own # {} => found.DevAddr = Min(own)

\* Every function does what it is for.
ConversionsExact ==
  /\ NoiseDetected /\ BytesExact /\ TemperatureExact
  /\ CalibrationExact /\ CompensationMonotone /\ HeaderExact /\ LengthExact /\ PhyFound
=============================================================================
