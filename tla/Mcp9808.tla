------------------------------- MODULE Mcp9808 -------------------------------
(***************************************************************************)
(* The MCP9808 temperature sensor: the driver (my_i2c_mcp9808) and the     *)
(* thread that fetches, converts and prints a sample every two seconds.    *)
(* The sensor and the I2C bus are the environment; any transfer can fail.  *)
(* SensorSpec is its specification: the names differ from those of Boot,   *)
(* which starts the thread, so that one module can prove about both.       *)
(***************************************************************************)
EXTENDS Integers, Sequences

CONSTANTS
  RESOLUTION,  \* cfg->resolution, of the four that the binding allows
  Register,    \* the values the temperature register takes: 16 bits
  Uptime       \* seconds since the start at which a sample is printed

ASSUME ResolutionAssumption == RESOLUTION \in 0..3
ASSUME RegisterAssumption == \A r \in Register : r \in Nat /\ r < 65536
ASSUME UptimeAssumption == \A s \in Uptime : s \in Nat /\ s <= 4294967   \* 2^32 ms

VARIABLES
  dev,       \* "none", "ready" or "failed", as init left the device
  sampler,   \* control point of thread_mcp9808
  reg_val,   \* data->reg_val
  temp,      \* the sensor_value of this turn of the loop
  sensor,    \* the temperature register of the sensor
  sensorRes, \* its resolution register
  \* History, read by the properties only:
  wire,      \* the register as the fetch of this turn found it, or -1
  stamp      \* what now_str returned in this turn

sensorVars == <<dev, sampler, reg_val, temp, sensor, sensorRes, wire, stamp>>

\* 3 is what the sensor powers up with.
SensorInit ==
  /\ dev = "none" /\ sampler = "start"
  /\ reg_val = 0 /\ temp = [val1 |-> 0, val2 |-> 0]
  /\ sensor \in Register /\ sensorRes = 3
  /\ wire = -1 /\ stamp = <<>>

-----------------------------------------------------------------------------
(* Conversions.                                                            *)

SCALE == 16      \* MY_I2C_MCP9808_TEMP_SCALE_CEL
SIGN_BIT == 4096 \* MY_I2C_MCP9808_TEMP_SIGN_BIT; the mask is the bits below

\* C's division rounds towards zero.
Quotient_Floor(a, b) == a \div b
Quotient(a, b) == IF a >= 0 THEN a \div b ELSE -((-a) \div b)

\* The two bytes come high byte first into a little-endian uint16_t.
Raw(reg) == (reg \div 256) + 256 * (reg % 256)
sys_be16_to_cpu(v) == (v \div 256) + 256 * (v % 256)

temp_signed_from_reg(reg) ==
  LET rv == reg % SIGN_BIT
  IN IF (reg \div SIGN_BIT) % 2 = 1 THEN -(1 + (SIGN_BIT - 1 - rv)) ELSE rv

temp_reg_from_signed(t) == (t % SIGN_BIT) + (IF t < 0 THEN SIGN_BIT ELSE 0)

channel_get(reg) ==
  LET t == temp_signed_from_reg(reg)
      val1 == Quotient(t, SCALE)
  IN [val1 |-> val1, val2 |-> Quotient((t - val1 * SCALE) * 1000000, SCALE)]

\* The fields of "%u:%02u:%02u.%03u" but for the milliseconds.
now_str(now) == <<now \div 3600, (now \div 60) % 60, now % 60>>

-----------------------------------------------------------------------------
(* The driver.                                                             *)

set_temperature_resolution == sensorRes' = RESOLUTION

\* The kernel calls init before any thread runs; the one transfer of init sets
\* the resolution.  It fails when the bus is not ready or the transfer fails.
my_i2c_mcp9808_init ==
  /\ dev = "none"
  /\ \/ dev' = "ready" /\ set_temperature_resolution
     \/ dev' = "failed" /\ UNCHANGED sensorRes
  /\ UNCHANGED <<sampler, reg_val, temp, sensor, wire, stamp>>

-----------------------------------------------------------------------------
(* The thread.                                                             *)

Start ==
  /\ sampler = "start"
  /\ dev # "none"
  /\ sampler' = IF dev = "ready" THEN "fetch" ELSE "ended"
  /\ UNCHANGED <<dev, reg_val, temp, sensor, sensorRes, wire, stamp>>

\* reg_read swaps the bytes of what it read.
sample_fetch ==
  /\ sampler = "fetch"
  /\ reg_val' = sys_be16_to_cpu(Raw(sensor))
  /\ wire' = sensor
  /\ sampler' = "get"
  /\ UNCHANGED <<dev, temp, sensor, sensorRes, stamp>>

\* The transfer fails, with both bytes already stored, or none; the thread
\* leaves its loop.
sample_fetch_error ==
  /\ sampler = "fetch"
  /\ reg_val' \in {reg_val, Raw(sensor)}
  /\ sampler' = "ended"
  /\ UNCHANGED <<dev, temp, sensor, sensorRes, wire, stamp>>

\* channel_get never fails.
Get ==
  /\ sampler = "get"
  /\ temp' = channel_get(reg_val)
  /\ sampler' = "print"
  /\ UNCHANGED <<dev, reg_val, sensor, sensorRes, wire, stamp>>

PrintSample ==
  /\ sampler = "print"
  /\ \E now \in Uptime : stamp' = now_str(now)
  /\ sampler' = "sleep"
  /\ UNCHANGED <<dev, reg_val, temp, sensor, sensorRes, wire>>

\* Two seconds, in which the temperature may change by a step.
Sleep ==
  /\ sampler = "sleep"
  /\ sensor' \in {sensor, sensor + 1} \cap Register
  /\ sampler' = "fetch"
  /\ wire' = -1 /\ stamp' = <<>>
  /\ UNCHANGED <<dev, reg_val, temp, sensorRes>>

SensorNext ==
  \/ my_i2c_mcp9808_init
  \/ Start
  \/ sample_fetch
  \/ sample_fetch_error
  \/ Get
  \/ PrintSample
  \/ Sleep

SensorSpec == SensorInit /\ [][SensorNext]_sensorVars

-----------------------------------------------------------------------------

\* Every variable has its type; reg_val is 16 bits wide.
SensorTypeOK ==
  /\ dev \in {"none", "ready", "failed"}
  /\ sampler \in {"start", "fetch", "get", "print", "sleep", "ended"}
  /\ reg_val \in Nat /\ reg_val < 65536
  /\ temp \in [val1 : Int, val2 : Int]
  /\ -256 <= temp.val1 /\ temp.val1 <= 255
  /\ -1000000 < temp.val2 /\ temp.val2 < 1000000
  /\ sensor \in Register /\ sensorRes \in 0..3
  /\ wire \in Register \cup {-1}

\* The datasheet's value of a register in microcelsius: a two's complement
\* number of 13 bits in sixteenths of a degree, whatever the alert flags are.
Microcelsius(reg) ==
  62500 * (IF reg % 8192 < 4096 THEN reg % 8192 ELSE (reg % 8192) - 8192)

Digits(n) == IF n < 10 THEN 1 ELSE IF n < 100 THEN 2 ELSE IF n < 1000 THEN 3 ELSE 4
Padded(n) == IF n < 10 THEN 2 ELSE Digits(n)

\* The text of now_str, its NUL included, fits buf[16].
StampFits ==
  stamp # <<>> =>
    Digits(stamp[1]) + 1 + Padded(stamp[2]) + 1 + Padded(stamp[3]) + 1 + 3 + 1 <= 16

\* What is printed is the register as this turn's fetch found it, of a sensor
\* with the configured resolution; never an older one, or what a failed fetch
\* left behind.  val1 and val2 are its value exactly, neither of them with the
\* other sign, as the sensor API asks of temperatures below zero; encoding the
\* decoded register gives it back without the flags; and the time before it
\* fits its buffer up to the wrap of the 32-bit uptime.
SampleExact ==
  /\ SensorTypeOK
  /\ sampler \in {"print", "sleep"} =>
       /\ wire # -1 /\ sensorRes = RESOLUTION
       /\ temp.val1 * 1000000 + temp.val2 = Microcelsius(wire)
       /\ (temp.val1 >= 0 /\ temp.val2 >= 0) \/ (temp.val1 <= 0 /\ temp.val2 <= 0)
       /\ temp_reg_from_signed(temp_signed_from_reg(reg_val)) = reg_val % 8192
  /\ StampFits
=============================================================================
