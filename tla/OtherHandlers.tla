--------------------------- MODULE OtherHandlers ---------------------------
(***************************************************************************)
(* The operation handlers of the remaining drivers: control-gpb.c, hid.c,  *)
(* power_supply.c, camera.c and loopback.c.  An operator is named after    *)
(* the function of the source it stands for.                               *)
(***************************************************************************)
EXTENDS Steps

(***************************************************************************)
(* control-gpb.c, without connected and disconnected, which act on the     *)
(* core: they are actions of Service.  The four timesync functions are     *)
(* stubs that return nothing where their callers read a result, which may  *)
(* then be anything.                                                       *)
(***************************************************************************)
gb_control_protocol_version == VersionHandler
gb_control_get_manifest_size == {<<Alloc>>}
gb_control_get_manifest == {<<Alloc, Need("manifest", "INVALID")>>}
gb_control_interface_version == {<<Alloc>>}
gb_control_disconnecting == EmptyHandler
gb_control_bundle_activate == {<<Alloc>>}
gb_control_bundle_suspend == {<<Alloc>>}
gb_control_bundle_resume == {<<Alloc>>}
gb_control_bundle_deactivate == {<<Alloc>>}
gb_control_intf_suspend_prepare == {<<Alloc>>}
gb_control_intf_deactivate_prepare == {<<Alloc>>}
gb_control_timesync_enable == {<<Need("size", "INVALID"), Reads("timesync_enable", "errno")>>}
gb_control_timesync_disable == {<<Reads("timesync_disable", "errno")>>}
gb_control_timesync_authoritative ==
  {<<Need("size", "INVALID"), Reads("timesync_authoritative", "errno")>>}
gb_control_timesync_get_last_event == {<<Alloc, Reads("timesync_get_last_event", "errno")>>}

gb_control_handlers ==
  [protocol_version        |-> gb_control_protocol_version,
   get_manifest_size       |-> gb_control_get_manifest_size,
   get_manifest            |-> gb_control_get_manifest,
   interface_version       |-> gb_control_interface_version,
   disconnecting           |-> gb_control_disconnecting,
   bundle_activate         |-> gb_control_bundle_activate,
   bundle_suspend          |-> gb_control_bundle_suspend,
   bundle_resume           |-> gb_control_bundle_resume,
   bundle_deactivate       |-> gb_control_bundle_deactivate,
   intf_suspend_prepare    |-> gb_control_intf_suspend_prepare,
   intf_deactivate_prepare |-> gb_control_intf_deactivate_prepare,
   timesync_enable         |-> gb_control_timesync_enable,
   timesync_disable        |-> gb_control_timesync_disable,
   timesync_authoritative  |-> gb_control_timesync_authoritative,
   timesync_get_last_event |-> gb_control_timesync_get_last_event]

(***************************************************************************)
(* hid.c.  The report descriptor is read into an answer of the length the  *)
(* last hid descriptor gave (0 before the first).  A set_report takes a    *)
(* negative length for a long one: only 0 is refused.                      *)
(***************************************************************************)
Opened == Need("priv_and_dev", "UNKNOWN_ERROR")

gb_hid_protocol_version == VersionHandler
gb_hid_get_descriptor ==
  {<<Opened, Alloc, Reads("device_hid_get_descriptor", "UNKNOWN_ERROR"),
     Put("report_desc_len", "known")>>}
gb_hid_get_report_descriptor ==
  {<<Opened, Alloc, Reads("device_hid_get_report_descriptor", "UNKNOWN_ERROR")>>}
gb_hid_power_on == {<<Opened, Writes("device_hid_power_on", "UNKNOWN_ERROR")>>}
gb_hid_power_off == {<<Opened, Writes("device_hid_power_off", "UNKNOWN_ERROR")>>}
gb_hid_get_report ==
  {<<Need("size", "INVALID"), Reads("device_hid_get_report_length", "UNKNOWN_ERROR"),
     Need("length", "UNKNOWN_ERROR"), Alloc,
     Reads("device_hid_get_report", "UNKNOWN_ERROR")>>}
gb_hid_set_report ==
  {<<Need("size", "INVALID"), Reads("device_hid_get_report_length", "ignored"),
     Need("length", "UNKNOWN_ERROR"), Writes("device_hid_set_report", "UNKNOWN_ERROR")>>}

gb_hid_handlers ==
  [protocol_version      |-> gb_hid_protocol_version,
   get_descriptor        |-> gb_hid_get_descriptor,
   get_report_descriptor |-> gb_hid_get_report_descriptor,
   power_on              |-> gb_hid_power_on,
   power_off             |-> gb_hid_power_off,
   get_report            |-> gb_hid_get_report,
   set_report            |-> gb_hid_set_report]

(***************************************************************************)
(* power_supply.c: the device is asked first, the answer allocated last.   *)
(***************************************************************************)
gb_power_supply_version == VersionHandler
gb_power_supply_get_supplies ==
  {<<Alloc, Reads("device_power_supply_get_supplies", "errno")>>}
gb_power_supply_get_description ==
  {<<Need("size", "INVALID"), Reads("device_power_supply_get_description", "errno"), Alloc>>}
gb_power_supply_get_prop_descriptors ==
  {<<Need("size", "INVALID"), Reads("device_power_supply_get_properties_count", "errno"),
     Malloc("descriptors"),
     Freeing(Reads("device_power_supply_get_prop_descriptors", "errno"), {"descriptors"}),
     Freeing(Alloc, {"descriptors"}), Free("descriptors")>>}
gb_power_supply_get_property ==
  {<<Need("size", "INVALID"), Reads("device_power_supply_get_property", "errno"), Alloc>>}
gb_power_supply_set_property ==
  {<<Need("size", "INVALID"), Writes("device_power_supply_set_property", "errno")>>}

gb_power_supply_handlers ==
  [version              |-> gb_power_supply_version,
   get_supplies         |-> gb_power_supply_get_supplies,
   get_description      |-> gb_power_supply_get_description,
   get_prop_descriptors |-> gb_power_supply_get_prop_descriptors,
   get_property         |-> gb_power_supply_get_property,
   set_property         |-> gb_power_supply_set_property]

(***************************************************************************)
(* camera.c.  The driver keeps the state it believes the camera in.  A     *)
(* request for no streams moves it before the device is asked; one for     *)
(* streams after, to configured unless the device adjusted the request or  *)
(* the host was only testing; its answer is used without a check.          *)
(***************************************************************************)
Known == {"UNCONFIGURED", "CONFIGURED"}

gb_camera_protocol_version == VersionHandler
gb_camera_capabilities ==
  {<<In("state", Known, "INVALID"), Reads("device_camera_capabilities", "errno"),
     Need("room", "NO_MEMORY"), Alloc>>}
SetStreams(after) ==
  <<Need("size", "INVALID"), Need("stream_count", "INVALID"),
    In("state", {"UNCONFIGURED"}, "INVALID"), Malloc("cfg_request"),
    Freeing(Malloc("cfg_answer"), {"cfg_request"}),
    Freeing(Writes("device_camera_set_streams_cfg", "INVALID"), {"cfg_request", "cfg_answer"}),
    Put("state", after), MustAlloc, Free("cfg_answer"), Free("cfg_request")>>
gb_camera_configure_streams ==
  {<<Need("size", "INVALID"), In("state", Known, "INVALID"), Put("state", "UNCONFIGURED"),
     Writes("device_camera_set_streams_cfg", "errno"), TryAlloc>>,
   SetStreams("UNCONFIGURED"), SetStreams("CONFIGURED")}
gb_camera_capture ==
  {<<In("state", {"CONFIGURED"}, "INVALID"), Need("size", "INVALID"),
     Need("padding", "INVALID"), Malloc("capt_req"),
     Freeing(Writes("device_camera_capture", "errno"), {"capt_req"}), Free("capt_req")>>}
gb_camera_flush ==
  {<<In("state", {"CONFIGURED"}, "INVALID"), Writes("device_camera_flush", "errno"),
     Put("state", "CONFIGURED"), Alloc>>}

gb_camera_handlers ==
  [version           |-> gb_camera_protocol_version,
   capabilities      |-> gb_camera_capabilities,
   configure_streams |-> gb_camera_configure_streams,
   capture           |-> gb_camera_capture,
   flush             |-> gb_camera_flush]

(***************************************************************************)
(* loopback.c, the side that answers.                                      *)
(***************************************************************************)
gb_loopback_protocol_ver_cb == VersionHandler
gb_loopback_transfer_req_cb == {<<Need("size", "INVALID"), Alloc>>}
gb_loopback_ping_sink_req_cb == EmptyHandler

gb_loopback_handlers ==
  [protocol_version |-> gb_loopback_protocol_ver_cb,
   ping             |-> gb_loopback_ping_sink_req_cb,
   transfer         |-> gb_loopback_transfer_req_cb,
   sink             |-> gb_loopback_ping_sink_req_cb]
=============================================================================
