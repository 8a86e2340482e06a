---------------------------- MODULE BusHandlers ----------------------------
(***************************************************************************)
(* The operation handlers of the drivers of buses and bridges: i2c.c,      *)
(* spi.c, sdio.c, usb.c and uart.c.  An operator is named after the        *)
(* function of the source it stands for.                                   *)
(***************************************************************************)
EXTENDS Steps

(***************************************************************************)
(* i2c.c.  The answer of a transfer is allocated before the messages are   *)
(* built; all of them must name one address.  TransferKeeping frees them   *)
(* only on the way that succeeds.                                          *)
(***************************************************************************)
gb_i2c_protocol_version == VersionHandler
gb_i2c_protocol_functionality == {<<Alloc>>}
TransferKeeping ==
  {<<Need("size", "INVALID"), Need("descriptors", "INVALID"), Alloc, Malloc("requests"),
     Need("one_address", "INVALID"), Writes("i2c_transfer", "errno"), Free("requests")>>}
gb_i2c_protocol_transfer ==
  {<<Need("size", "INVALID"), Need("descriptors", "INVALID"), Alloc, Malloc("requests"),
     Freeing(Need("one_address", "INVALID"), {"requests"}),
     Freeing(Writes("i2c_transfer", "errno"), {"requests"}), Free("requests")>>}

gb_i2c_handlers ==
  [version       |-> gb_i2c_protocol_version,
   functionality |-> gb_i2c_protocol_functionality,
   transfer      |-> gb_i2c_protocol_transfer]

(***************************************************************************)
(* spi.c.  The configuration of a chip is asked without looking whether    *)
(* the controller is one of the platform's, and an error of the platform   *)
(* only trips an assertion: without assertions it is lost.  A transfer of  *)
(* no operations succeeds without an answer of its own; of others the      *)
(* lengths, word sizes and chip selects are checked first, and the length  *)
(* of the message when the buffers are already there.                      *)
(***************************************************************************)
gb_spi_protocol_version == VersionHandler
device_spi_get_master_config(spidev) ==
  <<Need(spidev, "NONEXISTENT"), Reads("controller_config_response", "ignored")>>
gb_spi_protocol_master_config == {<<Alloc>> \o device_spi_get_master_config("gb_spidev")}
device_spi_get_device_config(spidev) ==
  <<Need(spidev, "fault"), Reads("peripheral_config_response", "ignored")>>
gb_spi_protocol_device_config ==
  {<<Need("size", "INVALID"), Alloc>> \o device_spi_get_device_config("gb_spidev")}
request_to_spi_config(spidev) == Need(spidev, "NONEXISTENT")
gb_spi_protocol_transfer ==
  {<<Need("size", "INVALID")>>,
   <<Need("size", "INVALID"), Need("settings", "INVALID"), Malloc("tx_buf"),
     Freeing(Need("descriptors", "INVALID"), {"tx_buf"}), Freeing(Alloc, {"tx_buf"}),
     Freeing(Need("rdwr", "INVALID"), {"tx_buf"}),
     Freeing(request_to_spi_config("gb_spidev"), {"tx_buf"}),
     Freeing(Writes("spi_transceive", "errno"), {"tx_buf"}), Free("tx_buf")>>}

gb_spi_handlers ==
  [version       |-> gb_spi_protocol_version,
   master_config |-> gb_spi_protocol_master_config,
   device_config |-> gb_spi_protocol_device_config,
   transfer      |-> gb_spi_protocol_transfer]

(***************************************************************************)
(* sdio.c.  The card is commanded and written to before the answer is      *)
(* allocated, and read from after; a command the card did not answer in    *)
(* time is a success, with four words nobody wrote.  (The test that the    *)
(* request has data is of the address of its last member: it never fails.) *)
(***************************************************************************)
gb_sdio_protocol_version == VersionHandler
gb_sdio_protocol_get_capabilities ==
  {<<Reads("device_sdio_get_capabilities", "errno"), Alloc>>}
gb_sdio_protocol_set_ios == {<<Need("size", "INVALID"), Writes("device_sdio_set_ios", "errno")>>}
gb_sdio_protocol_command ==
  {<<Need("size", "INVALID"), Writes("device_sdio_send_cmd", "unless_ETIMEDOUT"), Alloc>>}
gb_sdio_protocol_transfer ==
  {<<Need("size", "INVALID"), Writes("device_sdio_write", "errno"), Alloc>>,
   <<Need("size", "INVALID"), Need("write_or_read", "INVALID"), Alloc,
     Reads("device_sdio_read", "errno")>>}

gb_sdio_handlers ==
  [version          |-> gb_sdio_protocol_version,
   get_capabilities |-> gb_sdio_protocol_get_capabilities,
   set_ios          |-> gb_sdio_protocol_set_ios,
   command          |-> gb_sdio_protocol_command,
   transfer         |-> gb_sdio_protocol_transfer]

(***************************************************************************)
(* usb.c: the host controller's stop returns nothing.                      *)
(***************************************************************************)
gb_usb_protocol_version == VersionHandler
gb_usb_hcd_stop == {<<Writes("device_usb_hcd_stop", "ignored")>>}
gb_usb_hcd_start == {<<Writes("device_usb_hcd_start", "UNKNOWN_ERROR")>>}
gb_usb_hub_control ==
  {<<Need("size", "INVALID"), Alloc, Writes("device_usb_hcd_hub_control", "UNKNOWN_ERROR")>>}

gb_usb_handlers ==
  [protocol_version |-> gb_usb_protocol_version,
   hcd_stop         |-> gb_usb_hcd_stop,
   hcd_start        |-> gb_usb_hcd_start,
   hub_control      |-> gb_usb_hub_control]

(***************************************************************************)
(* uart.c.  The control lines are read, changed and written back in two    *)
(* calls of the device.                                                    *)
(***************************************************************************)
gb_uart_protocol_version == VersionHandler
gb_uart_send_data ==
  {<<Need("size", "INVALID"), Need("data_size", "INVALID"),
     Writes("device_uart_start_transmitter", "UNKNOWN_ERROR")>>}
gb_uart_set_line_coding ==
  {<<Need("size", "INVALID"), Need("format", "INVALID"), Need("parity", "INVALID"),
     Need("data_bits", "INVALID"), Writes("device_uart_set_configuration", "UNKNOWN_ERROR")>>}
gb_uart_set_control_line_state ==
  {<<Need("size", "INVALID"), Reads("device_uart_get_modem_ctrl", "UNKNOWN_ERROR"),
     Writes("device_uart_set_modem_ctrl", "UNKNOWN_ERROR")>>}
gb_uart_send_break ==
  {<<Need("size", "INVALID"), Writes("device_uart_set_break", "UNKNOWN_ERROR")>>}

gb_uart_handlers ==
  [version                |-> gb_uart_protocol_version,
   send_data              |-> gb_uart_send_data,
   set_line_coding        |-> gb_uart_set_line_coding,
   set_control_line_state |-> gb_uart_set_control_line_state,
   send_break             |-> gb_uart_send_break]
=============================================================================
