---------------------------- MODULE PinHandlers ----------------------------
(***************************************************************************)
(* The operation handlers of the drivers of pins and lamps: gpio.c,        *)
(* pwm-protocol.c, lights.c and vibrator.c.  An operator is named after    *)
(* the function of the source it stands for.                               *)
(***************************************************************************)
EXTENDS Steps

(***************************************************************************)
(* gpio.c.  The device of the cport must be known, the message long        *)
(* enough, and the line one of the port's.                                 *)
(***************************************************************************)
LineChecks == <<Need("device", "INVALID"), Need("size", "INVALID"), Need("which", "INVALID")>>

gb_gpio_protocol_version == VersionHandler
gb_gpio_line_count ==
  {<<Need("device", "INVALID"), Alloc, Need("line", "UNKNOWN_ERROR")>>}
gb_gpio_activate == {LineChecks}
gb_gpio_deactivate == {LineChecks}
gb_gpio_get_direction ==
  {LineChecks \o <<Alloc, Reads("gpio_pin_is_input", "ignored")>>}
gb_gpio_direction_in == {LineChecks \o <<Writes("gpio_pin_configure", "errno")>>}
gb_gpio_direction_out ==
  {LineChecks \o <<Writes("gpio_pin_configure", "errno"), Writes("gpio_pin_set", "errno")>>}
gb_gpio_get_value == {LineChecks \o <<Alloc, Reads("gpio_pin_get", "ignored")>>}
gb_gpio_set_value == {LineChecks \o <<Writes("gpio_pin_set", "errno")>>}
gb_gpio_set_debounce ==                             \* a time of 0 does nothing
  {LineChecks, LineChecks \o <<Writes("gpio_pin_configure", "errno")>>}
gb_gpio_irq_mask == {LineChecks \o <<Writes("gpio_pin_interrupt_configure", "errno")>>}
gb_gpio_irq_unmask == {LineChecks \o <<Writes("gpio_pin_interrupt_configure", "errno")>>}
gb_gpio_irq_type ==
  {LineChecks \o <<Need("irq_type", "INVALID"),
                   Writes("gpio_pin_interrupt_configure", "errno")>>}

gb_gpio_handlers ==
  [protocol_version |-> gb_gpio_protocol_version,
   line_count       |-> gb_gpio_line_count,
   activate         |-> gb_gpio_activate,
   deactivate       |-> gb_gpio_deactivate,
   get_direction    |-> gb_gpio_get_direction,
   direction_in     |-> gb_gpio_direction_in,
   direction_out    |-> gb_gpio_direction_out,
   get_value        |-> gb_gpio_get_value,
   set_value        |-> gb_gpio_set_value,
   set_debounce     |-> gb_gpio_set_debounce,
   irq_type         |-> gb_gpio_irq_type,
   irq_mask         |-> gb_gpio_irq_mask,
   irq_unmask       |-> gb_gpio_irq_unmask]

(***************************************************************************)
(* pwm-protocol.c.  The number of generators is 0 until the host asks for  *)
(* the count: before, every generator is out of range.                     *)
(***************************************************************************)
GeneratorChecks ==
  <<Need("size", "INVALID"), Need("priv_and_dev", "UNKNOWN_ERROR"),
    In("num_pwms", {"counted"}, "INVALID"), Need("which", "INVALID")>>

gb_pwm_protocol_version == VersionHandler
gb_pwm_protocol_count ==
  {<<Need("priv_and_dev", "UNKNOWN_ERROR"), Alloc,
     Reads("device_pwm_get_count", "UNKNOWN_ERROR"),
     Need("generators", "UNKNOWN_ERROR"), Put("num_pwms", "counted")>>}
gb_pwm_protocol_activate ==
  {GeneratorChecks \o <<Writes("device_pwm_activate", "UNKNOWN_ERROR")>>}
gb_pwm_protocol_deactivate ==
  {GeneratorChecks \o <<Writes("device_pwm_deactivate", "UNKNOWN_ERROR")>>}
ConfigUnseen == {GeneratorChecks \o <<Writes("device_pwm_config", "ignored")>>}
gb_pwm_protocol_config ==
  {GeneratorChecks \o <<Writes("device_pwm_config", "UNKNOWN_ERROR")>>}
gb_pwm_protocol_polarity ==
  {GeneratorChecks \o <<Writes("device_pwm_set_polarity", "UNKNOWN_ERROR")>>}
gb_pwm_protocol_enable ==
  {GeneratorChecks \o <<Writes("device_pwm_enable", "UNKNOWN_ERROR")>>}
gb_pwm_protocol_disable ==
  {GeneratorChecks \o <<Writes("device_pwm_disable", "UNKNOWN_ERROR")>>}

gb_pwm_handlers ==
  [version    |-> gb_pwm_protocol_version,
   count      |-> gb_pwm_protocol_count,
   activate   |-> gb_pwm_protocol_activate,
   deactivate |-> gb_pwm_protocol_deactivate,
   config     |-> gb_pwm_protocol_config,
   polarity   |-> gb_pwm_protocol_polarity,
   enable     |-> gb_pwm_protocol_enable,
   disable    |-> gb_pwm_protocol_disable]

(***************************************************************************)
(* lights.c: every operation is one call of the device, made after the     *)
(* answer is allocated when there is something to answer.                  *)
(***************************************************************************)
Ask(call) == {<<Need("size", "INVALID"), Alloc, Reads(call, "errno")>>}
Tell(call) == {<<Need("size", "INVALID"), Writes(call, "errno")>>}

gb_lights_protocol_version == VersionHandler
gb_lights_get_lights == {<<Alloc, Reads("device_lights_get_lights", "errno")>>}
gb_lights_get_light_config == Ask("device_lights_get_light_config")
gb_lights_get_channel_config == Ask("device_lights_get_channel_config")
gb_lights_get_channel_flash_config == Ask("device_lights_get_channel_flash_config")
gb_lights_set_brightness == Tell("device_lights_set_brightness")
gb_lights_set_blink == Tell("device_lights_set_blink")
gb_lights_set_color == Tell("device_lights_set_color")
gb_lights_set_fade == Tell("device_lights_set_fade")
gb_lights_set_flash_intensity == Tell("device_lights_set_flash_intensity")
gb_lights_set_flash_strobe == Tell("device_lights_set_flash_strobe")
gb_lights_set_flash_timeout == Tell("device_lights_set_flash_timeout")
gb_lights_get_flash_fault == Ask("device_lights_get_flash_fault")

gb_lights_handlers ==
  [protocol_version         |-> gb_lights_protocol_version,
   get_lights               |-> gb_lights_get_lights,
   get_light_config         |-> gb_lights_get_light_config,
   get_channel_config       |-> gb_lights_get_channel_config,
   get_channel_flash_config |-> gb_lights_get_channel_flash_config,
   set_brightness           |-> gb_lights_set_brightness,
   set_blink                |-> gb_lights_set_blink,
   set_color                |-> gb_lights_set_color,
   set_fade                 |-> gb_lights_set_fade,
   set_flash_intensity      |-> gb_lights_set_flash_intensity,
   set_flash_strobe         |-> gb_lights_set_flash_strobe,
   set_flash_timeout        |-> gb_lights_set_flash_timeout,
   get_flash_fault          |-> gb_lights_get_flash_fault]

(***************************************************************************)
(* vibrator.c: three calls of a fixed pin, whose results nobody reads.     *)
(***************************************************************************)
PinCalls == <<Writes("gpio_activate", "ignored"), Writes("gpio_set_value", "ignored"),
              Writes("gpio_deactivate", "ignored")>>

gb_vibrator_protocol_version == VersionHandler
gb_vibrator_vibrator_on == {<<Need("size", "INVALID")>> \o PinCalls}
gb_vibrator_vibrator_off == {PinCalls}

gb_vibrator_handlers ==
  [protocol_version |-> gb_vibrator_protocol_version,
   vibrator_on      |-> gb_vibrator_vibrator_on,
   vibrator_off     |-> gb_vibrator_vibrator_off]
=============================================================================
