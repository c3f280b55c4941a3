----------------------------- MODULE MCCodecMain -----------------------------
(* codec.go's Codecs, built from a scheme with core/v1 installed, offers   *)
(* the JSON, YAML and Protobuf serializers.                                *)
EXTENDS CodecMain

MCSupportedMediaTypes ==
  {"application/json", "application/yaml", "application/vnd.kubernetes.protobuf"}

=============================================================================
