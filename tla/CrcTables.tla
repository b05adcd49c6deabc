------------------------------ MODULE CrcTables -----------------------------
(***************************************************************************)
(* The tables of src/crc/*.h, entry k of a table at k + 1.  An entry of 32 *)
(* bits is two entries here, its upper and its lower half.                 *)
(***************************************************************************)
EXTENDS Integers

arc_crctab == <<
  \h0000, \hC0C1, \hC181, \h0140, \hC301, \h03C0, \h0280, \hC241, \hC601,
  \h06C0, \h0780, \hC741, \h0500, \hC5C1, \hC481, \h0440, \hCC01, \h0CC0,
  \h0D80, \hCD41, \h0F00, \hCFC1, \hCE81, \h0E40, \h0A00, \hCAC1, \hCB81,
  \h0B40, \hC901, \h09C0, \h0880, \hC841, \hD801, \h18C0, \h1980, \hD941,
  \h1B00, \hDBC1, \hDA81, \h1A40, \h1E00, \hDEC1, \hDF81, \h1F40, \hDD01,
  \h1DC0, \h1C80, \hDC41, \h1400, \hD4C1, \hD581, \h1540, \hD701, \h17C0,
  \h1680, \hD641, \hD201, \h12C0, \h1380, \hD341, \h1100, \hD1C1, \hD081,
  \h1040, \hF001, \h30C0, \h3180, \hF141, \h3300, \hF3C1, \hF281, \h3240,
  \h3600, \hF6C1, \hF781, \h3740, \hF501, \h35C0, \h3480, \hF441, \h3C00,
  \hFCC1, \hFD81, \h3D40, \hFF01, \h3FC0, \h3E80, \hFE41, \hFA01, \h3AC0,
  \h3B80, \hFB41, \h3900, \hF9C1, \hF881, \h3840, \h2800, \hE8C1, \hE981,
  \h2940, \hEB01, \h2BC0, \h2A80, \hEA41, \hEE01, \h2EC0, \h2F80, \hEF41,
  \h2D00, \hEDC1, \hEC81, \h2C40, \hE401, \h24C0, \h2580, \hE541, \h2700,
  \hE7C1, \hE681, \h2640, \h2200, \hE2C1, \hE381, \h2340, \hE101, \h21C0,
  \h2080, \hE041, \hA001, \h60C0, \h6180, \hA141, \h6300, \hA3C1, \hA281,
  \h6240, \h6600, \hA6C1, \hA781, \h6740, \hA501, \h65C0, \h6480, \hA441,
  \h6C00, \hACC1, \hAD81, \h6D40, \hAF01, \h6FC0, \h6E80, \hAE41, \hAA01,
  \h6AC0, \h6B80, \hAB41, \h6900, \hA9C1, \hA881, \h6840, \h7800, \hB8C1,
  \hB981, \h7940, \hBB01, \h7BC0, \h7A80, \hBA41, \hBE01, \h7EC0, \h7F80,
  \hBF41, \h7D00, \hBDC1, \hBC81, \h7C40, \hB401, \h74C0, \h7580, \hB541,
  \h7700, \hB7C1, \hB681, \h7640, \h7200, \hB2C1, \hB381, \h7340, \hB101,
  \h71C0, \h7080, \hB041, \h5000, \h90C1, \h9181, \h5140, \h9301, \h53C0,
  \h5280, \h9241, \h9601, \h56C0, \h5780, \h9741, \h5500, \h95C1, \h9481,
  \h5440, \h9C01, \h5CC0, \h5D80, \h9D41, \h5F00, \h9FC1, \h9E81, \h5E40,
  \h5A00, \h9AC1, \h9B81, \h5B40, \h9901, \h59C0, \h5880, \h9841, \h8801,
  \h48C0, \h4980, \h8941, \h4B00, \h8BC1, \h8A81, \h4A40, \h4E00, \h8EC1,
  \h8F81, \h4F40, \h8D01, \h4DC0, \h4C80, \h8C41, \h4400, \h84C1, \h8581,
  \h4540, \h8701, \h47C0, \h4680, \h8641, \h8201, \h42C0, \h4380, \h8341,
  \h4100, \h81C1, \h8081, \h4040 >>

binhex_crctab == <<
  \h0000, \h1021, \h2042, \h3063, \h4084, \h50A5, \h60C6, \h70E7, \h8108,
  \h9129, \hA14A, \hB16B, \hC18C, \hD1AD, \hE1CE, \hF1EF, \h1231, \h0210,
  \h3273, \h2252, \h52B5, \h4294, \h72F7, \h62D6, \h9339, \h8318, \hB37B,
  \hA35A, \hD3BD, \hC39C, \hF3FF, \hE3DE, \h2462, \h3443, \h0420, \h1401,
  \h64E6, \h74C7, \h44A4, \h5485, \hA56A, \hB54B, \h8528, \h9509, \hE5EE,
  \hF5CF, \hC5AC, \hD58D, \h3653, \h2672, \h1611, \h0630, \h76D7, \h66F6,
  \h5695, \h46B4, \hB75B, \hA77A, \h9719, \h8738, \hF7DF, \hE7FE, \hD79D,
  \hC7BC, \h48C4, \h58E5, \h6886, \h78A7, \h0840, \h1861, \h2802, \h3823,
  \hC9CC, \hD9ED, \hE98E, \hF9AF, \h8948, \h9969, \hA90A, \hB92B, \h5AF5,
  \h4AD4, \h7AB7, \h6A96, \h1A71, \h0A50, \h3A33, \h2A12, \hDBFD, \hCBDC,
  \hFBBF, \hEB9E, \h9B79, \h8B58, \hBB3B, \hAB1A, \h6CA6, \h7C87, \h4CE4,
  \h5CC5, \h2C22, \h3C03, \h0C60, \h1C41, \hEDAE, \hFD8F, \hCDEC, \hDDCD,
  \hAD2A, \hBD0B, \h8D68, \h9D49, \h7E97, \h6EB6, \h5ED5, \h4EF4, \h3E13,
  \h2E32, \h1E51, \h0E70, \hFF9F, \hEFBE, \hDFDD, \hCFFC, \hBF1B, \hAF3A,
  \h9F59, \h8F78, \h9188, \h81A9, \hB1CA, \hA1EB, \hD10C, \hC12D, \hF14E,
  \hE16F, \h1080, \h00A1, \h30C2, \h20E3, \h5004, \h4025, \h7046, \h6067,
  \h83B9, \h9398, \hA3FB, \hB3DA, \hC33D, \hD31C, \hE37F, \hF35E, \h02B1,
  \h1290, \h22F3, \h32D2, \h4235, \h5214, \h6277, \h7256, \hB5EA, \hA5CB,
  \h95A8, \h8589, \hF56E, \hE54F, \hD52C, \hC50D, \h34E2, \h24C3, \h14A0,
  \h0481, \h7466, \h6447, \h5424, \h4405, \hA7DB, \hB7FA, \h8799, \h97B8,
  \hE75F, \hF77E, \hC71D, \hD73C, \h26D3, \h36F2, \h0691, \h16B0, \h6657,
  \h7676, \h4615, \h5634, \hD94C, \hC96D, \hF90E, \hE92F, \h99C8, \h89E9,
  \hB98A, \hA9AB, \h5844, \h4865, \h7806, \h6827, \h18C0, \h08E1, \h3882,
  \h28A3, \hCB7D, \hDB5C, \hEB3F, \hFB1E, \h8BF9, \h9BD8, \hABBB, \hBB9A,
  \h4A75, \h5A54, \h6A37, \h7A16, \h0AF1, \h1AD0, \h2AB3, \h3A92, \hFD2E,
  \hED0F, \hDD6C, \hCD4D, \hBDAA, \hAD8B, \h9DE8, \h8DC9, \h7C26, \h6C07,
  \h5C64, \h4C45, \h3CA2, \h2C83, \h1CE0, \h0CC1, \hEF1F, \hFF3E, \hCF5D,
  \hDF7C, \hAF9B, \hBFBA, \h8FD9, \h9FF8, \h6E17, \h7E36, \h4E55, \h5E74,
  \h2E93, \h3EB2, \h0ED1, \h1EF0 >>

kermit_crctab == <<
  \h0000, \h1189, \h2312, \h329B, \h4624, \h57AD, \h6536, \h74BF, \h8C48,
  \h9DC1, \hAF5A, \hBED3, \hCA6C, \hDBE5, \hE97E, \hF8F7, \h1081, \h0108,
  \h3393, \h221A, \h56A5, \h472C, \h75B7, \h643E, \h9CC9, \h8D40, \hBFDB,
  \hAE52, \hDAED, \hCB64, \hF9FF, \hE876, \h2102, \h308B, \h0210, \h1399,
  \h6726, \h76AF, \h4434, \h55BD, \hAD4A, \hBCC3, \h8E58, \h9FD1, \hEB6E,
  \hFAE7, \hC87C, \hD9F5, \h3183, \h200A, \h1291, \h0318, \h77A7, \h662E,
  \h54B5, \h453C, \hBDCB, \hAC42, \h9ED9, \h8F50, \hFBEF, \hEA66, \hD8FD,
  \hC974, \h4204, \h538D, \h6116, \h709F, \h0420, \h15A9, \h2732, \h36BB,
  \hCE4C, \hDFC5, \hED5E, \hFCD7, \h8868, \h99E1, \hAB7A, \hBAF3, \h5285,
  \h430C, \h7197, \h601E, \h14A1, \h0528, \h37B3, \h263A, \hDECD, \hCF44,
  \hFDDF, \hEC56, \h98E9, \h8960, \hBBFB, \hAA72, \h6306, \h728F, \h4014,
  \h519D, \h2522, \h34AB, \h0630, \h17B9, \hEF4E, \hFEC7, \hCC5C, \hDDD5,
  \hA96A, \hB8E3, \h8A78, \h9BF1, \h7387, \h620E, \h5095, \h411C, \h35A3,
  \h242A, \h16B1, \h0738, \hFFCF, \hEE46, \hDCDD, \hCD54, \hB9EB, \hA862,
  \h9AF9, \h8B70, \h8408, \h9581, \hA71A, \hB693, \hC22C, \hD3A5, \hE13E,
  \hF0B7, \h0840, \h19C9, \h2B52, \h3ADB, \h4E64, \h5FED, \h6D76, \h7CFF,
  \h9489, \h8500, \hB79B, \hA612, \hD2AD, \hC324, \hF1BF, \hE036, \h18C1,
  \h0948, \h3BD3, \h2A5A, \h5EE5, \h4F6C, \h7DF7, \h6C7E, \hA50A, \hB483,
  \h8618, \h9791, \hE32E, \hF2A7, \hC03C, \hD1B5, \h2942, \h38CB, \h0A50,
  \h1BD9, \h6F66, \h7EEF, \h4C74, \h5DFD, \hB58B, \hA402, \h9699, \h8710,
  \hF3AF, \hE226, \hD0BD, \hC134, \h39C3, \h284A, \h1AD1, \h0B58, \h7FE7,
  \h6E6E, \h5CF5, \h4D7C, \hC60C, \hD785, \hE51E, \hF497, \h8028, \h91A1,
  \hA33A, \hB2B3, \h4A44, \h5BCD, \h6956, \h78DF, \h0C60, \h1DE9, \h2F72,
  \h3EFB, \hD68D, \hC704, \hF59F, \hE416, \h90A9, \h8120, \hB3BB, \hA232,
  \h5AC5, \h4B4C, \h79D7, \h685E, \h1CE1, \h0D68, \h3FF3, \h2E7A, \hE70E,
  \hF687, \hC41C, \hD595, \hA12A, \hB0A3, \h8238, \h93B1, \h6B46, \h7ACF,
  \h4854, \h59DD, \h2D62, \h3CEB, \h0E70, \h1FF9, \hF78F, \hE606, \hD49D,
  \hC514, \hB1AB, \hA022, \h92B9, \h8330, \h7BC7, \h6A4E, \h58D5, \h495C,
  \h3DE3, \h2C6A, \h1EF1, \h0F78 >>

(* The same entries in a file of their own.                                *)
ccitt_crctab == binhex_crctab

ccitt32_crctab == <<
  \h0000, \h0000, \h04C1, \h1DB7, \h0982, \h3B6E, \h0D43, \h26D9,
  \h1304, \h76DC, \h17C5, \h6B6B, \h1A86, \h4DB2, \h1E47, \h5005,
  \h2608, \hEDB8, \h22C9, \hF00F, \h2F8A, \hD6D6, \h2B4B, \hCB61,
  \h350C, \h9B64, \h31CD, \h86D3, \h3C8E, \hA00A, \h384F, \hBDBD,
  \h4C11, \hDB70, \h48D0, \hC6C7, \h4593, \hE01E, \h4152, \hFDA9,
  \h5F15, \hADAC, \h5BD4, \hB01B, \h5697, \h96C2, \h5256, \h8B75,
  \h6A19, \h36C8, \h6ED8, \h2B7F, \h639B, \h0DA6, \h675A, \h1011,
  \h791D, \h4014, \h7DDC, \h5DA3, \h709F, \h7B7A, \h745E, \h66CD,
  \h9823, \hB6E0, \h9CE2, \hAB57, \h91A1, \h8D8E, \h9560, \h9039,
  \h8B27, \hC03C, \h8FE6, \hDD8B, \h82A5, \hFB52, \h8664, \hE6E5,
  \hBE2B, \h5B58, \hBAEA, \h46EF, \hB7A9, \h6036, \hB368, \h7D81,
  \hAD2F, \h2D84, \hA9EE, \h3033, \hA4AD, \h16EA, \hA06C, \h0B5D,
  \hD432, \h6D90, \hD0F3, \h7027, \hDDB0, \h56FE, \hD971, \h4B49,
  \hC736, \h1B4C, \hC3F7, \h06FB, \hCEB4, \h2022, \hCA75, \h3D95,
  \hF23A, \h8028, \hF6FB, \h9D9F, \hFBB8, \hBB46, \hFF79, \hA6F1,
  \hE13E, \hF6F4, \hE5FF, \hEB43, \hE8BC, \hCD9A, \hEC7D, \hD02D,
  \h3486, \h7077, \h3047, \h6DC0, \h3D04, \h4B19, \h39C5, \h56AE,
  \h2782, \h06AB, \h2343, \h1B1C, \h2E00, \h3DC5, \h2AC1, \h2072,
  \h128E, \h9DCF, \h164F, \h8078, \h1B0C, \hA6A1, \h1FCD, \hBB16,
  \h018A, \hEB13, \h054B, \hF6A4, \h0808, \hD07D, \h0CC9, \hCDCA,
  \h7897, \hAB07, \h7C56, \hB6B0, \h7115, \h9069, \h75D4, \h8DDE,
  \h6B93, \hDDDB, \h6F52, \hC06C, \h6211, \hE6B5, \h66D0, \hFB02,
  \h5E9F, \h46BF, \h5A5E, \h5B08, \h571D, \h7DD1, \h53DC, \h6066,
  \h4D9B, \h3063, \h495A, \h2DD4, \h4419, \h0B0D, \h40D8, \h16BA,
  \hACA5, \hC697, \hA864, \hDB20, \hA527, \hFDF9, \hA1E6, \hE04E,
  \hBFA1, \hB04B, \hBB60, \hADFC, \hB623, \h8B25, \hB2E2, \h9692,
  \h8AAD, \h2B2F, \h8E6C, \h3698, \h832F, \h1041, \h87EE, \h0DF6,
  \h99A9, \h5DF3, \h9D68, \h4044, \h902B, \h669D, \h94EA, \h7B2A,
  \hE0B4, \h1DE7, \hE475, \h0050, \hE936, \h2689, \hEDF7, \h3B3E,
  \hF3B0, \h6B3B, \hF771, \h768C, \hFA32, \h5055, \hFEF3, \h4DE2,
  \hC6BC, \hF05F, \hC27D, \hEDE8, \hCF3E, \hCB31, \hCBFF, \hD686,
  \hD5B8, \h8683, \hD179, \h9B34, \hDC3A, \hBDED, \hD8FB, \hA05A,
  \h690C, \hE0EE, \h6DCD, \hFD59, \h608E, \hDB80, \h644F, \hC637,
  \h7A08, \h9632, \h7EC9, \h8B85, \h738A, \hAD5C, \h774B, \hB0EB,
  \h4F04, \h0D56, \h4BC5, \h10E1, \h4686, \h3638, \h4247, \h2B8F,
  \h5C00, \h7B8A, \h58C1, \h663D, \h5582, \h40E4, \h5143, \h5D53,
  \h251D, \h3B9E, \h21DC, \h2629, \h2C9F, \h00F0, \h285E, \h1D47,
  \h3619, \h4D42, \h32D8, \h50F5, \h3F9B, \h762C, \h3B5A, \h6B9B,
  \h0315, \hD626, \h07D4, \hCB91, \h0A97, \hED48, \h0E56, \hF0FF,
  \h1011, \hA0FA, \h14D0, \hBD4D, \h1993, \h9B94, \h1D52, \h8623,
  \hF12F, \h560E, \hF5EE, \h4BB9, \hF8AD, \h6D60, \hFC6C, \h70D7,
  \hE22B, \h20D2, \hE6EA, \h3D65, \hEBA9, \h1BBC, \hEF68, \h060B,
  \hD727, \hBBB6, \hD3E6, \hA601, \hDEA5, \h80D8, \hDA64, \h9D6F,
  \hC423, \hCD6A, \hC0E2, \hD0DD, \hCDA1, \hF604, \hC960, \hEBB3,
  \hBD3E, \h8D7E, \hB9FF, \h90C9, \hB4BC, \hB610, \hB07D, \hABA7,
  \hAE3A, \hFBA2, \hAAFB, \hE615, \hA7B8, \hC0CC, \hA379, \hDD7B,
  \h9B36, \h60C6, \h9FF7, \h7D71, \h92B4, \h5BA8, \h9675, \h461F,
  \h8832, \h161A, \h8CF3, \h0BAD, \h81B0, \h2D74, \h8571, \h30C3,
  \h5D8A, \h9099, \h594B, \h8D2E, \h5408, \hABF7, \h50C9, \hB640,
  \h4E8E, \hE645, \h4A4F, \hFBF2, \h470C, \hDD2B, \h43CD, \hC09C,
  \h7B82, \h7D21, \h7F43, \h6096, \h7200, \h464F, \h76C1, \h5BF8,
  \h6886, \h0BFD, \h6C47, \h164A, \h6104, \h3093, \h65C5, \h2D24,
  \h119B, \h4BE9, \h155A, \h565E, \h1819, \h7087, \h1CD8, \h6D30,
  \h029F, \h3D35, \h065E, \h2082, \h0B1D, \h065B, \h0FDC, \h1BEC,
  \h3793, \hA651, \h3352, \hBBE6, \h3E11, \h9D3F, \h3AD0, \h8088,
  \h2497, \hD08D, \h2056, \hCD3A, \h2D15, \hEBE3, \h29D4, \hF654,
  \hC5A9, \h2679, \hC168, \h3BCE, \hCC2B, \h1D17, \hC8EA, \h00A0,
  \hD6AD, \h50A5, \hD26C, \h4D12, \hDF2F, \h6BCB, \hDBEE, \h767C,
  \hE3A1, \hCBC1, \hE760, \hD676, \hEA23, \hF0AF, \hEEE2, \hED18,
  \hF0A5, \hBD1D, \hF464, \hA0AA, \hF927, \h8673, \hFDE6, \h9BC4,
  \h89B8, \hFD09, \h8D79, \hE0BE, \h803A, \hC667, \h84FB, \hDBD0,
  \h9ABC, \h8BD5, \h9E7D, \h9662, \h933E, \hB0BB, \h97FF, \hAD0C,
  \hAFB0, \h10B1, \hAB71, \h0D06, \hA632, \h2BDF, \hA2F3, \h3668,
  \hBCB4, \h666D, \hB875, \h7BDA, \hB536, \h5D03, \hB1F7, \h40B4 >>

zip_crctab == <<
  \h0000, \h0000, \h7707, \h3096, \hEE0E, \h612C, \h9909, \h51BA,
  \h076D, \hC419, \h706A, \hF48F, \hE963, \hA535, \h9E64, \h95A3,
  \h0EDB, \h8832, \h79DC, \hB8A4, \hE0D5, \hE91E, \h97D2, \hD988,
  \h09B6, \h4C2B, \h7EB1, \h7CBD, \hE7B8, \h2D07, \h90BF, \h1D91,
  \h1DB7, \h1064, \h6AB0, \h20F2, \hF3B9, \h7148, \h84BE, \h41DE,
  \h1ADA, \hD47D, \h6DDD, \hE4EB, \hF4D4, \hB551, \h83D3, \h85C7,
  \h136C, \h9856, \h646B, \hA8C0, \hFD62, \hF97A, \h8A65, \hC9EC,
  \h1401, \h5C4F, \h6306, \h6CD9, \hFA0F, \h3D63, \h8D08, \h0DF5,
  \h3B6E, \h20C8, \h4C69, \h105E, \hD560, \h41E4, \hA267, \h7172,
  \h3C03, \hE4D1, \h4B04, \hD447, \hD20D, \h85FD, \hA50A, \hB56B,
  \h35B5, \hA8FA, \h42B2, \h986C, \hDBBB, \hC9D6, \hACBC, \hF940,
  \h32D8, \h6CE3, \h45DF, \h5C75, \hDCD6, \h0DCF, \hABD1, \h3D59,
  \h26D9, \h30AC, \h51DE, \h003A, \hC8D7, \h5180, \hBFD0, \h6116,
  \h21B4, \hF4B5, \h56B3, \hC423, \hCFBA, \h9599, \hB8BD, \hA50F,
  \h2802, \hB89E, \h5F05, \h8808, \hC60C, \hD9B2, \hB10B, \hE924,
  \h2F6F, \h7C87, \h5868, \h4C11, \hC161, \h1DAB, \hB666, \h2D3D,
  \h76DC, \h4190, \h01DB, \h7106, \h98D2, \h20BC, \hEFD5, \h102A,
  \h71B1, \h8589, \h06B6, \hB51F, \h9FBF, \hE4A5, \hE8B8, \hD433,
  \h7807, \hC9A2, \h0F00, \hF934, \h9609, \hA88E, \hE10E, \h9818,
  \h7F6A, \h0DBB, \h086D, \h3D2D, \h9164, \h6C97, \hE663, \h5C01,
  \h6B6B, \h51F4, \h1C6C, \h6162, \h8565, \h30D8, \hF262, \h004E,
  \h6C06, \h95ED, \h1B01, \hA57B, \h8208, \hF4C1, \hF50F, \hC457,
  \h65B0, \hD9C6, \h12B7, \hE950, \h8BBE, \hB8EA, \hFCB9, \h887C,
  \h62DD, \h1DDF, \h15DA, \h2D49, \h8CD3, \h7CF3, \hFBD4, \h4C65,
  \h4DB2, \h6158, \h3AB5, \h51CE, \hA3BC, \h0074, \hD4BB, \h30E2,
  \h4ADF, \hA541, \h3DD8, \h95D7, \hA4D1, \hC46D, \hD3D6, \hF4FB,
  \h4369, \hE96A, \h346E, \hD9FC, \hAD67, \h8846, \hDA60, \hB8D0,
  \h4404, \h2D73, \h3303, \h1DE5, \hAA0A, \h4C5F, \hDD0D, \h7CC9,
  \h5005, \h713C, \h2702, \h41AA, \hBE0B, \h1010, \hC90C, \h2086,
  \h5768, \hB525, \h206F, \h85B3, \hB966, \hD409, \hCE61, \hE49F,
  \h5EDE, \hF90E, \h29D9, \hC998, \hB0D0, \h9822, \hC7D7, \hA8B4,
  \h59B3, \h3D17, \h2EB4, \h0D81, \hB7BD, \h5C3B, \hC0BA, \h6CAD,
  \hEDB8, \h8320, \h9ABF, \hB3B6, \h03B6, \hE20C, \h74B1, \hD29A,
  \hEAD5, \h4739, \h9DD2, \h77AF, \h04DB, \h2615, \h73DC, \h1683,
  \hE363, \h0B12, \h9464, \h3B84, \h0D6D, \h6A3E, \h7A6A, \h5AA8,
  \hE40E, \hCF0B, \h9309, \hFF9D, \h0A00, \hAE27, \h7D07, \h9EB1,
  \hF00F, \h9344, \h8708, \hA3D2, \h1E01, \hF268, \h6906, \hC2FE,
  \hF762, \h575D, \h8065, \h67CB, \h196C, \h3671, \h6E6B, \h06E7,
  \hFED4, \h1B76, \h89D3, \h2BE0, \h10DA, \h7A5A, \h67DD, \h4ACC,
  \hF9B9, \hDF6F, \h8EBE, \hEFF9, \h17B7, \hBE43, \h60B0, \h8ED5,
  \hD6D6, \hA3E8, \hA1D1, \h937E, \h38D8, \hC2C4, \h4FDF, \hF252,
  \hD1BB, \h67F1, \hA6BC, \h5767, \h3FB5, \h06DD, \h48B2, \h364B,
  \hD80D, \h2BDA, \hAF0A, \h1B4C, \h3603, \h4AF6, \h4104, \h7A60,
  \hDF60, \hEFC3, \hA867, \hDF55, \h316E, \h8EEF, \h4669, \hBE79,
  \hCB61, \hB38C, \hBC66, \h831A, \h256F, \hD2A0, \h5268, \hE236,
  \hCC0C, \h7795, \hBB0B, \h4703, \h2202, \h16B9, \h5505, \h262F,
  \hC5BA, \h3BBE, \hB2BD, \h0B28, \h2BB4, \h5A92, \h5CB3, \h6A04,
  \hC2D7, \hFFA7, \hB5D0, \hCF31, \h2CD9, \h9E8B, \h5BDE, \hAE1D,
  \h9B64, \hC2B0, \hEC63, \hF226, \h756A, \hA39C, \h026D, \h930A,
  \h9C09, \h06A9, \hEB0E, \h363F, \h7207, \h6785, \h0500, \h5713,
  \h95BF, \h4A82, \hE2B8, \h7A14, \h7BB1, \h2BAE, \h0CB6, \h1B38,
  \h92D2, \h8E9B, \hE5D5, \hBE0D, \h7CDC, \hEFB7, \h0BDB, \hDF21,
  \h86D3, \hD2D4, \hF1D4, \hE242, \h68DD, \hB3F8, \h1FDA, \h836E,
  \h81BE, \h16CD, \hF6B9, \h265B, \h6FB0, \h77E1, \h18B7, \h4777,
  \h8808, \h5AE6, \hFF0F, \h6A70, \h6606, \h3BCA, \h1101, \h0B5C,
  \h8F65, \h9EFF, \hF862, \hAE69, \h616B, \hFFD3, \h166C, \hCF45,
  \hA00A, \hE278, \hD70D, \hD2EE, \h4E04, \h8354, \h3903, \hB3C2,
  \hA767, \h2661, \hD060, \h16F7, \h4969, \h474D, \h3E6E, \h77DB,
  \hAED1, \h6A4A, \hD9D6, \h5ADC, \h40DF, \h0B66, \h37D8, \h3BF0,
  \hA9BC, \hAE53, \hDEBB, \h9EC5, \h47B2, \hCF7F, \h30B5, \hFFE9,
  \hBDBD, \hF21C, \hCABA, \hC28A, \h53B3, \h9330, \h24B4, \hA3A6,
  \hBAD0, \h3605, \hCDD7, \h0693, \h54DE, \h5729, \h23D9, \h67BF,
  \hB366, \h7A2E, \hC461, \h4AB8, \h5D68, \h1B02, \h2A6F, \h2B94,
  \hB40B, \hBE37, \hC30C, \h8EA1, \h5A05, \hDF1B, \h2D02, \hEF8D >>
=============================================================================
